---- MODULE Spec2Model ----
(***************************************************************************)
(* Verification model of the stock screener:                               *)
(*   - CompleteScreeningEngine.check_all_conditions                        *)
(*       (src/src/complete_screening_engine.py)                            *)
(*   - ScoringSystem.calculate_score (src/src/scoring_system.py)           *)
(*   - EnhancedDataFetcher metric resolvers and get_all_data               *)
(*       (src/src/enhanced_data_fetcher.py)                                *)
(*   - RealDataIntegrationFinal.get_real_roe                               *)
(*       (src/src/real_data_integration_final.py)                          *)
(*   - StockScreenerEnhanced.run_screening (src/stock_screener_enhanced.py)*)
(*                                                                         *)
(* Decimal quantities (EPS, ROE, percentages, thresholds) are carried in   *)
(* tenths: 39.2 is 392, 12.0 is 120.                                       *)
(***************************************************************************)
EXTENDS Integers, Sequences, FiniteSets, TLC

VARIABLES
  \* CompleteScreeningEngine
  params,          \* self.params
  min_conditions,  \* self.min_conditions
  stock_data,      \* the argument of the last check_all_conditions call
  check_result,    \* what that call returned
  engine_pc,       \* "idle" before the first call, then "checked", "scored"
  \* ScoringSystem
  score_input,     \* the argument of the last calculate_score call
  score,           \* what that call returned
  scoring_pc,      \* "idle" before the first call, then "scored"
  \* a metric resolver of EnhancedDataFetcher / RealDataIntegrationFinal
  resolver,        \* the resolver that was called
  resolver_id,     \* its stock_id argument
  calls,           \* the providers invoked so far, with what each returned
  resolved,        \* None while running, then the value returned
  resolver_pc,     \* "idle", "running", "returned"
  \* EnhancedDataFetcher.get_all_data
  stock_list,      \* what get_stock_list returns
  stock_id_arg,    \* the stock_id argument
  result,          \* the result dict under construction
  fetch_pc,        \* "idle", "called", a step of the try block, "returned"
  \* StockScreenerEnhanced.run_screening
  run_list,         \* the ids of the stock list after the market filter
  idx,              \* number of loop iterations begun
  stop_screening,   \* self.stop_screening
  qualified_stocks, \* the ranked result list
  stats,            \* self.stats
  outcomes,         \* history: how each iteration went
  stop_at,          \* history: None, or where the run was when the flag was set
  screening_pc,     \* "idle", "setup", "loop" (between instruments),
                    \* "instrument", "finished", "returned", "aborted"
  \* one series check of CompleteScreeningEngine / TechnicalCalculator
  price_df,         \* None, or the bars of stock_data['price'], oldest first
  series_fn,        \* the check that is applied
  series_args,      \* its other arguments
  series_result,    \* what it returned and what check_all_conditions recorded
  series_pc,        \* "idle", "called", "recorded"
  \* RealDataIntegrationFinal as the engine holds it, and the exchange
  exchange,            \* what the providers answer at this moment
  warning_stocks,      \* self.warning_stocks
  disposition_stocks,  \* self.disposition_stocks
  last_special_update, \* "none", or its age: "fresh", "stale", "day_old"
  network_calls,       \* history: the requests issued by check_all_conditions
  first_result,        \* None, or the result of the first of two calls
  \* one FinMindAPI instance, the threads that call _make_request on it
  fm_threads,          \* the threads that take part
  fm_answers,          \* what requests.get may come back with in this run
  fm_pc,               \* per thread: "idle", "throttle", "sleeping",
                       \* "ready", "waiting", "backoff", "returned"
  fm_attempt,          \* per thread: the loop variable attempt
  fm_last,             \* per thread: "none" or the last outcome of requests.get
  fm_result,           \* per thread: what _make_request returned
  fm_wake_at,          \* per thread: when the sleep of _throttle ends
  fm_started,          \* history, per thread: None or when attempt 0 was issued
  last_request_time,   \* self.last_request_time
  clock,               \* time.time(), in tenths of a second
  \* RealDataIntegrationFinal.get_trust_holding_percentage, one call
  th_id,               \* stock_id
  th_pc,               \* "idle", the request in flight, or "returned"
  th_month,            \* the loop variable i of _get_trust_holding_from_twse
  th_net,              \* cumulative_shares once the buy/sell feed answered
  th_result,           \* None, or the percentage returned
  \* one TrustHoldingFetcher
  tf_cache,            \* self.cache, per instrument None or an entry
  tf_last,             \* None, or the last lookup: what it asked and returned
  tf_lookups           \* lookups made so far

engine_vars == << params, min_conditions, stock_data, check_result, engine_pc >>

scoring_vars == << score_input, score, scoring_pc >>

resolver_vars == << resolver, resolver_id, calls, resolved, resolver_pc >>

fetch_vars == << stock_list, stock_id_arg, result, fetch_pc >>

screening_vars ==
  << run_list, idx, stop_screening, qualified_stocks, stats, outcomes,
     stop_at, screening_pc >>

series_vars ==
  << price_df, series_fn, series_args, series_result, series_pc >>

integrator_vars ==
  << exchange, warning_stocks, disposition_stocks, last_special_update,
     network_calls, first_result >>

finmind_vars ==
  << fm_threads, fm_answers, fm_pc, fm_attempt, fm_last, fm_result,
     fm_wake_at, fm_started, last_request_time, clock >>

holding_vars == << th_id, th_pc, th_month, th_net, th_result >>

fetcher_vars == << tf_cache, tf_last, tf_lookups >>

provider_vars == << finmind_vars, holding_vars, fetcher_vars >>

vars ==
  << engine_vars, scoring_vars, resolver_vars, fetch_vars, screening_vars,
     series_vars, integrator_vars, provider_vars >>

\* Python's None is the empty tuple, a present value v the 1-tuple <<v>>.
None == << >>

Some(v) == << v >>

\* The subsets of S of at most n elements.
RECURSIVE SubsetsUpTo(_, _)
SubsetsUpTo(S, n) ==
  IF n = 0 THEN { {} }
  ELSE LET prev == SubsetsUpTo(S, n - 1)
       IN  prev \cup { x \cup { e } : x \in prev, e \in S }

\* ------------------------------------------------------------------------
\* Bounds of the model
\* ------------------------------------------------------------------------

\* largest number of conditions switched on in one configuration
MaxEnabled == 2

\* largest min_conditions_to_pass drawn (the spinbox allows 0..20)
MaxMinConditions == 3

\* largest number of single verdicts flipped in a scoring input
MaxToggled == 2

\* ------------------------------------------------------------------------
\* CompleteScreeningEngine: configuration
\* ------------------------------------------------------------------------

\* Result keys in the order check_all_conditions records them.
ResultKeySeq ==
  << "market_twse", "market_otc",
     "volume_surge_1_5x", "volume_surge_20d_3x", "volume_surge_60d_5x",
     "min_volume",
     "daily_kd_golden", "monthly_kd_golden", "above_ma20", "break_60d_high",
     "trust_buy", "trust_pct", "trust_5d", "trust_holding", "inst_5d",
     "margin_ratio", "margin_5d",
     "eps", "roe", "yield",
     "daily_change", "change_5d",
     "not_warning", "not_disposition", "not_limit_up" >>

ResultKeys == { ResultKeySeq[i] : i \in DOMAIN ResultKeySeq }

\* The configuration key that switches a result key on.
ParamKey(k) ==
  CASE k = "volume_surge_1_5x"   -> "volume_surge1"
    [] k = "volume_surge_20d_3x" -> "volume_surge2"
    [] k = "volume_surge_60d_5x" -> "volume_surge3"
    [] k = "not_warning"         -> "exclude_warning"
    [] k = "not_disposition"     -> "exclude_disposition"
    [] k = "not_limit_up"        -> "exclude_limit_up"
    [] OTHER                     -> k

ParamKeys == { ParamKey(k) : k \in ResultKeys }

\* Keys whose parameter is a plain boolean; the others are
\* {'enabled': bool, 'value': number} dicts.
BoolParamKeys ==
  { "market_twse", "market_otc", "daily_kd_golden", "monthly_kd_golden",
    "above_ma20", "break_60d_high", "exclude_warning", "exclude_disposition" }

\* Thresholds ('value') of the scalar conditions, in tenths.
EpsThreshold == 20
RoeThreshold == 100
TrustHoldingThreshold == 150

\* A parameter entry is "absent" (key missing), "off" (False or
\* {'enabled': False}) or "on" (True or {'enabled': True, 'value': v}).
\* Two shapes of configuration occur: the full map built by
\* get_screening_params (every key present) and a sparse map that lists the
\* enabled conditions only.
ParamsOf(enabled, sparse) ==
  [ p \in ParamKeys |->
      IF p \in enabled THEN "on" ELSE IF sparse THEN "absent" ELSE "off" ]

Configs ==
  { ParamsOf(e, s) :
      e \in SubsetsUpTo(ParamKeys, MaxEnabled),
      s \in BOOLEAN }

\* A test of presence instead of the flag: `if key in self.params`.
IsEnabled_KeyPresent(prm, k) == prm[ParamKey(k)] # "absent"

\* self.params.get(key) / self.params.get(key, {}).get('enabled')
IsEnabled(prm, k) == prm[ParamKey(k)] = "on"

\* ------------------------------------------------------------------------
\* CompleteScreeningEngine: snapshots
\* ------------------------------------------------------------------------

\* Conditions decided from the scalar fields of stock_data itself.
ScalarKeys == { "market_twse", "market_otc", "eps", "roe", "trust_holding" }

\* Conditions decided from the price / institutional / margin series of the
\* snapshot, or from a feed of real_data_integrator.
ObservedKeys == ResultKeys \ { "market_twse", "market_otc", "trust_holding" }

\* A stock_data argument.  is_dict = FALSE is an argument that is no dict.
\* obs is the set of conditions whose series or feed lookup comes out true
\* for this snapshot.
StockData(id, type, eps, roe, trust, obs) ==
  [ is_dict |-> TRUE, stock_id |-> id, type |-> type,
    eps |-> eps, roe |-> roe, trust_holding |-> trust, obs |-> obs ]

NotADict ==
  [ is_dict |-> FALSE, stock_id |-> None, type |-> "unknown",
    eps |-> None, roe |-> None, trust_holding |-> None, obs |-> {} ]

\* The scalar profiles drawn: instruments of the default tables of
\* EnhancedDataFetcher (2330: EPS 39.2, ROE 28.5, trust 0.8; 2303: EPS 2.8,
\* ROE 8.5, trust 2.5), over-the-counter instruments carrying provider
\* values, and a dict that carries no id and no scalar.
Profiles ==
  { StockData(Some("2330"), "twse", Some(392), Some(285), Some(8), {}),
    StockData(Some("2303"), "twse", Some(28), Some(85), Some(25), {}),
    StockData(Some("6488"), "tpex", Some(25), Some(120), Some(160), {}),
    StockData(Some("5483"), "otc", None, None, Some(150), {}),
    StockData(None, "unknown", None, None, None, {}) }

\* The snapshots a configuration can tell apart: a lookup that no enabled
\* condition performs is not drawn.
SnapshotsFor(prm) ==
  { [ p EXCEPT !.obs = o ] :
      p \in Profiles,
      o \in SUBSET { k \in ObservedKeys : prm[ParamKey(k)] = "on" } }
    \cup { NotADict }

\* ------------------------------------------------------------------------
\* CompleteScreeningEngine: the checks
\* ------------------------------------------------------------------------

\* Python truthiness of stock_data.get('stock_id').
HasStockId(sd) == sd.stock_id # None /\ sd.stock_id # Some("")

\* check_eps_with_value: the snapshot's EPS when it carries one, else the
\* integrator's feed when the snapshot names an instrument, else (False, 0).
check_eps_with_value(sd) ==
  IF sd.eps # None THEN sd.eps[1] > EpsThreshold
  ELSE IF HasStockId(sd) THEN "eps" \in sd.obs
  ELSE FALSE

\* check_roe_with_value: as for EPS.
check_roe_with_value(sd) ==
  IF sd.roe # None THEN sd.roe[1] > RoeThreshold
  ELSE IF HasStockId(sd) THEN "roe" \in sd.obs
  ELSE FALSE

\* check_trust_holding_with_value: self._trust_holding >= threshold; a None
\* holding raises TypeError inside the try and yields (False, 0).
check_trust_holding_with_value(sd) ==
  IF sd.trust_holding = None THEN FALSE
  ELSE sd.trust_holding[1] >= TrustHoldingThreshold

\* check_yield_with_value: (False, 0) without an instrument id.
check_yield_with_value(sd) ==
  IF HasStockId(sd) THEN "yield" \in sd.obs ELSE FALSE

\* check_not_warning / check_not_disposition: True without an instrument id.
check_not_flagged(sd, k) ==
  IF HasStockId(sd) THEN k \in sd.obs ELSE TRUE

\* The verdict check_all_conditions records under result key k.
Verdict(sd, k) ==
  CASE k = "market_twse"     -> sd.type = "twse"
    [] k = "market_otc"      -> sd.type = "otc"
    [] k = "eps"             -> check_eps_with_value(sd)
    [] k = "roe"             -> check_roe_with_value(sd)
    [] k = "trust_holding"   -> check_trust_holding_with_value(sd)
    [] k = "yield"           -> check_yield_with_value(sd)
    [] k = "not_warning"     -> check_not_flagged(sd, k)
    [] k = "not_disposition" -> check_not_flagged(sd, k)
    [] OTHER                 -> k \in sd.obs

\* The display string recorded under result key k.
Display(sd, k) ==
  CASE k \in { "market_twse", "market_otc" } -> "market: " \o sd.type
    [] k = "eps" /\ sd.eps # None -> "EPS: " \o ToString(sd.eps[1])
    [] k = "roe" /\ sd.roe # None -> "ROE: " \o ToString(sd.roe[1])
    [] k = "trust_holding" /\ sd.trust_holding # None ->
         "trust holding: " \o ToString(sd.trust_holding[1])
    [] k = "trust_holding" /\ sd.trust_holding = None -> "trust holding: 0"
    [] k = "not_warning" ->
         IF check_not_flagged(sd, k) THEN "not warning" ELSE "warning"
    [] k = "not_disposition" ->
         IF check_not_flagged(sd, k) THEN "not disposition" ELSE "disposition"
    [] OTHER -> k \o ": value"

\* The result keys recorded: those whose parameter is switched on, in the
\* order of the code.
RecordedKeys(prm) ==
  SelectSeq(ResultKeySeq, LAMBDA k : IsEnabled(prm, k))

\* A count of every recorded verdict: sum(1 for v in results.values()).
CountTrue_EveryVerdict(keys, verdicts) == Len(keys)

\* sum(1 for v in results.values() if v == True), over the verdicts in the
\* order they were recorded.
RECURSIVE CountTrue(_, _)
CountTrue(keys, verdicts) ==
  IF keys = << >> THEN 0
  ELSE (IF verdicts[Head(keys)] THEN 1 ELSE 0) + CountTrue(Tail(keys), verdicts)

\* results['passed'] = matched_count >= self.min_conditions
PassedOf(matched_count, minc) == matched_count >= minc

\* The early return for an argument that is no dict.
NotADictResult ==
  [ verdicts |-> [ k \in {} |-> FALSE ], values |-> [ k \in {} |-> "" ],
    matched_count |-> 0, passed |-> FALSE ]

\* check_all_conditions
CheckAllConditions(prm, minc, sd) ==
  IF ~sd.is_dict THEN NotADictResult
  ELSE
    LET keys == RecordedKeys(prm)
        keyset == { keys[i] : i \in DOMAIN keys }
        verdicts == [ k \in keyset |-> Verdict(sd, k) ]
        matched == CountTrue(keys, verdicts)
    IN  [ verdicts |-> verdicts,
          values |-> [ k \in keyset |-> Display(sd, k) ],
          matched_count |-> matched,
          passed |-> PassedOf(matched, minc) ]

\* ------------------------------------------------------------------------
\* ScoringSystem
\* ------------------------------------------------------------------------

\* self.weights, in the order of the table.
WeightKeySeq ==
  << "volume_surge_5x", "volume_surge_3x", "volume_surge_1_5x", "min_volume",
     "daily_kd_golden", "monthly_kd_golden", "above_ma20", "break_60d_high",
     "trust_buy", "trust_pct", "trust_5d", "inst_5d",
     "eps_positive", "roe_above", "yield_above",
     "daily_change_moderate", "change_5d_moderate",
     "margin_ratio", "margin_5d",
     "not_warning", "not_disposition", "not_limit_up" >>

WeightKeys == { WeightKeySeq[i] : i \in DOMAIN WeightKeySeq }

Weights(k) ==
  CASE k = "volume_surge_5x"       -> 20
    [] k = "volume_surge_3x"       -> 10
    [] k = "volume_surge_1_5x"     -> 5
    [] k = "min_volume"            -> 3
    [] k = "daily_kd_golden"       -> 10
    [] k = "monthly_kd_golden"     -> 8
    [] k = "above_ma20"            -> 5
    [] k = "break_60d_high"        -> 15
    [] k = "trust_buy"             -> 10
    [] k = "trust_pct"             -> 5
    [] k = "trust_5d"              -> 10
    [] k = "inst_5d"               -> 5
    [] k = "eps_positive"          -> 5
    [] k = "roe_above"             -> 5
    [] k = "yield_above"           -> 5
    [] k = "daily_change_moderate" -> 3
    [] k = "change_5d_moderate"    -> 3
    [] k = "margin_ratio"          -> 2
    [] k = "margin_5d"             -> 2
    [] k = "not_warning"           -> 2
    [] k = "not_disposition"       -> 2
    [] k = "not_limit_up"          -> 3

\* self.combo_bonus
ComboPerfectVolume == 10
ComboTechFundamental == 15
ComboInstitutionalSupport == 10

\* The cap of total_score.
ScoreCap == 100

\* Every key a scored dict may carry: the engine's and the weight table's.
\* A dict is walked in this order (check_all_conditions inserts its keys in
\* the order of ResultKeySeq).
ScoreKeySeq ==
  ResultKeySeq \o SelectSeq(WeightKeySeq, LAMBDA k : k \notin ResultKeys)

ScoreKeys == { ScoreKeySeq[i] : i \in DOMAIN ScoreKeySeq }

\* The argument of calculate_score: the verdict entries of a dict, or an
\* argument that is no dict (is_dict = FALSE).  The entries 'matched_count',
\* 'passed' and 'values' of an engine result are no key of the weight table
\* and of no combination, and are left out.
ScoreInput(verdicts) == [ is_dict |-> TRUE, verdicts |-> verdicts ]

NotADictInput == [ is_dict |-> FALSE, verdicts |-> [ k \in {} |-> FALSE ] ]

\* check_result.get(c, False), taken as a truth value
Get(verdicts, c) == c \in DOMAIN verdicts /\ verdicts[c]

\* for condition, passed in check_result.items():
\*     if condition in self.weights and passed: matched_conditions.append(..)
MatchedConditions(verdicts) ==
  SelectSeq(ScoreKeySeq, LAMBDA k : k \in WeightKeys /\ Get(verdicts, k))

\* base_score += self.weights[condition]
RECURSIVE SumWeights(_)
SumWeights(keys) ==
  IF keys = << >> THEN 0 ELSE Weights(Head(keys)) + SumWeights(Tail(keys))

BaseScore(verdicts) == SumWeights(MatchedConditions(verdicts))

CountOf(verdicts, conds) == Cardinality({ c \in conds : Get(verdicts, c) })

\* _calculate_combo_bonus
CalculateComboBonus(verdicts) ==
    (IF \A x \in { "volume_surge_1_5x", "volume_surge_3x", "volume_surge_5x" } :
          Get(verdicts, x)
     THEN ComboPerfectVolume ELSE 0)
  + (IF /\ CountOf(verdicts,
                   { "daily_kd_golden", "above_ma20", "break_60d_high" }) >= 2
        /\ CountOf(verdicts,
                   { "eps_positive", "roe_above", "yield_above" }) >= 2
     THEN ComboTechFundamental ELSE 0)
  + (IF CountOf(verdicts, { "trust_buy", "trust_5d", "inst_5d" }) >= 2
     THEN ComboInstitutionalSupport ELSE 0)

Min(a, b) == IF a <= b THEN a ELSE b

\* The sum without the cap.
TotalScore_Uncapped(base_score, combo_score) == base_score + combo_score

\* total_score = min(100, base_score + combo_score)
TotalScore(base_score, combo_score) == Min(ScoreCap, base_score + combo_score)

\* _get_grade
GetGrade(s) ==
  IF s >= 90 THEN "A+"
  ELSE IF s >= 80 THEN "A"
  ELSE IF s >= 70 THEN "B+"
  ELSE IF s >= 60 THEN "B"
  ELSE "C"

\* The labels of _get_key_signal, in the order they are appended.
SignalLabels(matched) ==
  LET has(c) == \E i \in DOMAIN matched : matched[i] = c
  IN  (IF has("volume_surge_5x") THEN << "extreme volume surge" >>
       ELSE IF has("volume_surge_3x") THEN << "medium volume surge" >>
       ELSE IF has("volume_surge_1_5x") THEN << "volume surge" >>
       ELSE << >>)
   \o (IF has("daily_kd_golden") THEN << "KD golden cross" >> ELSE << >>)
   \o (IF has("break_60d_high") THEN << "new high" >> ELSE << >>)
   \o (IF has("trust_buy") THEN << "trust buy" >> ELSE << >>)
   \o (IF has("trust_5d") THEN << "trust buying streak" >> ELSE << >>)
   \o (IF has("eps_positive") /\ has("roe_above")
       THEN << "sound fundamentals" >> ELSE << >>)

\* " + ".join(labels)
RECURSIVE JoinPlus(_)
JoinPlus(labels) ==
  IF labels = << >> THEN ""
  ELSE IF Len(labels) = 1 THEN labels[1]
  ELSE labels[1] \o " + " \o JoinPlus(Tail(labels))

\* Every label, without the cut to three.
GetKeySignal_AllLabels(matched) ==
  IF SignalLabels(matched) # << >> THEN JoinPlus(SignalLabels(matched))
  ELSE "observing"

\* _get_key_signal
GetKeySignal(matched) ==
  LET signals == SignalLabels(matched)
  IN  IF signals # << >>
      THEN JoinPlus(SubSeq(signals, 1, Min(3, Len(signals))))
      ELSE "observing"

\* The dict returned from the except branch of calculate_score.
ScoreError ==
  [ total_score |-> 0, base_score |-> 0, combo_score |-> 0, grade |-> "C",
    key_signal |-> "score error", matched_conditions |-> << >> ]

\* calculate_score
CalculateScore(input) ==
  IF ~input.is_dict THEN ScoreError
  ELSE
    LET matched == MatchedConditions(input.verdicts)
        base_score == BaseScore(input.verdicts)
        combo_score == CalculateComboBonus(input.verdicts)
        total_score == TotalScore(base_score, combo_score)
    IN  [ total_score |-> total_score, base_score |-> base_score,
          combo_score |-> combo_score, grade |-> GetGrade(total_score),
          key_signal |-> GetKeySignal(matched),
          matched_conditions |-> matched ]

\* The scoring inputs drawn: the union of some groups of the weight table
\* with up to MaxToggled single verdicts flipped, and a non-dict argument.
ScoreGroups ==
  { { "volume_surge_5x", "volume_surge_3x", "volume_surge_1_5x", "min_volume" },
    { "daily_kd_golden", "monthly_kd_golden", "above_ma20", "break_60d_high" },
    { "trust_buy", "trust_pct", "trust_5d", "inst_5d" },
    { "eps_positive", "roe_above", "yield_above" },
    { "daily_change_moderate", "change_5d_moderate", "margin_ratio",
      "margin_5d", "not_warning", "not_disposition", "not_limit_up" } }

ScoreInputs ==
  { ScoreInput([ k \in ScoreKeys |->
                  (k \in UNION gs) # (k \in flipped) ]) :
      gs \in SUBSET ScoreGroups,
      flipped \in SubsetsUpTo(ScoreKeys, MaxToggled) }
    \cup { NotADictInput }

\* ------------------------------------------------------------------------
\* EnhancedDataFetcher / RealDataIntegrationFinal: the metric resolvers
\* ------------------------------------------------------------------------

\* largest payload magnitude a provider answers with is PayloadStep times
\* MaxPayload tenths
MaxPayload == 2

PayloadStep == 30

Max(a, b) == IF a >= b THEN a ELSE b

Resolvers ==
  { "get_eps_guaranteed", "get_roe_guaranteed",
    "get_trust_holding_percentage", "get_real_roe" }

\* The providers a resolver tries before its default, in the order of its
\* code.
ProviderChain(r) ==
  CASE r = "get_eps_guaranteed" ->
         << "get_eps_from_twse", "get_eps_from_finmind" >>
    [] r = "get_roe_guaranteed" ->
         << "calculate_roe_from_financial" >>
    [] r = "get_trust_holding_percentage" ->
         << "get_trust_holding_from_twse", "calculate_trust_holding" >>
    [] r = "get_real_roe" ->
         << "_calculate_roe_from_financial", "_get_roe_from_yahoo" >>

\* The default a resolver ends with.
DefaultProvider(r) ==
  CASE r = "get_eps_guaranteed"           -> "get_default_eps"
    [] r = "get_roe_guaranteed"           -> "get_default_roe"
    [] r = "get_trust_holding_percentage" -> "get_default_trust_holding"
    [] r = "get_real_roe"                 -> "default_roe"

\* The static tables (large_caps / default_roe) and the generic defaults,
\* in tenths.
EpsTable ==
  ("2330" :> 392) @@ ("2454" :> 725) @@ ("2317" :> 105) @@ ("2308" :> 112)
  @@ ("2382" :> 48) @@ ("2303" :> 28) @@ ("2412" :> 52) @@ ("2886" :> 21)
  @@ ("2891" :> 25) @@ ("1301" :> 38)

EpsGeneric == 25

RoeTable ==
  ("2330" :> 285) @@ ("2454" :> 253) @@ ("2317" :> 128) @@ ("2308" :> 185)
  @@ ("2382" :> 152) @@ ("2303" :> 85) @@ ("2412" :> 182) @@ ("2886" :> 105)
  @@ ("2891" :> 112) @@ ("1301" :> 98)

RoeGeneric == 120

TrustHoldingTable ==
  ("2330" :> 8) @@ ("2454" :> 12) @@ ("2317" :> 15) @@ ("2308" :> 21)
  @@ ("2382" :> 18) @@ ("2303" :> 25) @@ ("2412" :> 32) @@ ("2886" :> 28)
  @@ ("2891" :> 25) @@ ("1301" :> 19)

TrustHoldingGeneric == 20

RealRoeTable ==
  ("2330" :> 250) @@ ("2454" :> 180) @@ ("2881" :> 100) @@ ("3008" :> 300)
  @@ ("2317" :> 80) @@ ("2308" :> 150)

RealRoeGeneric == 150

get_default_eps(id) ==
  IF id \in DOMAIN EpsTable THEN EpsTable[id] ELSE EpsGeneric

\* A default that ignores the table.
get_default_roe_GenericOnly(id) == RoeGeneric

get_default_roe(id) ==
  IF id \in DOMAIN RoeTable THEN RoeTable[id] ELSE RoeGeneric

get_default_trust_holding(id) ==
  IF id \in DOMAIN TrustHoldingTable THEN TrustHoldingTable[id]
  ELSE TrustHoldingGeneric

\* The tail of get_real_roe: its own table, then the industry average.
real_roe_default(id) ==
  IF id \in DOMAIN RealRoeTable THEN RealRoeTable[id] ELSE RealRoeGeneric

DefaultValue(r, id) ==
  CASE r = "get_eps_guaranteed"           -> get_default_eps(id)
    [] r = "get_roe_guaranteed"           -> get_default_roe(id)
    [] r = "get_trust_holding_percentage" -> get_default_trust_holding(id)
    [] r = "get_real_roe"                 -> real_roe_default(id)

\* What a provider's request comes back with: no answer in time, an answer
\* that cannot be read, or a payload.  v is the figure the payload yields
\* (EPS, the ratio of net income to equity, the share held, ...), in tenths;
\* 0 stands for a payload without the instrument or without the fields.
Responses ==
  { [ kind |-> k, v |-> 0 ] : k \in { "timeout", "malformed" } }
    \cup { [ kind |-> "payload", v |-> PayloadStep * i ] : i \in -1 .. MaxPayload }

\* The cap of calculate_trust_holding (5.0) and the range
\* _calculate_roe_from_financial clamps to (-50 .. 100).
TrustHoldingCap == 50

RealRoeFloor == -500

RealRoeCeiling == 1000

\* What the provider function returns.  Every provider wraps its request in
\* try/except and returns 0.0 from the handler.
ProviderResult(p, resp) ==
  IF resp.kind # "payload" THEN 0
  ELSE
    CASE p \in { "get_eps_from_twse", "get_eps_from_finmind",
                 "calculate_roe_from_financial", "_get_roe_from_yahoo" } ->
           IF resp.v > 0 THEN resp.v ELSE 0
      [] p = "get_trust_holding_from_twse" -> resp.v
      [] p = "calculate_trust_holding" ->
           IF resp.v > 0 THEN Min(resp.v, TrustHoldingCap) ELSE 0
      [] p = "_calculate_roe_from_financial" ->
           LET net_income == IF resp.v < 0 THEN -resp.v ELSE resp.v
           IN  IF resp.v = 0 THEN 0
               ELSE Min(Max(net_income * 4, RealRoeFloor), RealRoeCeiling)

\* A test that lets a zero through: `if value >= 0`.
Accepted_NonNegative(v) == v >= 0

\* `if eps_twse > 0`, `if roe > 0`, `if holding_twse > 0`, ...
Accepted(v) == v > 0

\* The instruments the resolvers are asked about: in every table, in the
\* tables of EnhancedDataFetcher only, in the table of get_real_roe only,
\* in none.
ResolverIds == { "2330", "2317", "2303", "2881", "9999" }

\* Every value a resolver can return for an instrument.
ResolverReturns(r, id) ==
  { v \in { ProviderResult(ProviderChain(r)[i], resp) :
              i \in DOMAIN ProviderChain(r), resp \in Responses } :
      Accepted(v) }
    \cup { DefaultValue(r, id) }

\* ------------------------------------------------------------------------
\* EnhancedDataFetcher.get_all_data
\* ------------------------------------------------------------------------

\* largest integer passed as stock_id (the backup list has 10 rows)
MaxIndex == 10

\* An instrument id: a str, or an int.
StrId(s) == [ kind |-> "str", n |-> 0, s |-> s ]

IntId(n) == [ kind |-> "int", n |-> n, s |-> "" ]

\* A conversion that leaves an int an int.
str_Identity(x) == x

\* str(stock_id)
str(x) == IF x.kind = "int" THEN StrId(ToString(x.n)) ELSE x

\* get_backup_stock_list
BackupStockList ==
  << [ stock_id |-> StrId("2330"), type |-> "twse" ],
     [ stock_id |-> StrId("2454"), type |-> "twse" ],
     [ stock_id |-> StrId("2317"), type |-> "twse" ],
     [ stock_id |-> StrId("2308"), type |-> "twse" ],
     [ stock_id |-> StrId("2382"), type |-> "twse" ],
     [ stock_id |-> StrId("2303"), type |-> "twse" ],
     [ stock_id |-> StrId("2412"), type |-> "twse" ],
     [ stock_id |-> StrId("2886"), type |-> "twse" ],
     [ stock_id |-> StrId("2891"), type |-> "twse" ],
     [ stock_id |-> StrId("1301"), type |-> "twse" ] >>

\* A list as the TaiwanStockInfo request yields it: types 'twse' and 'tpex'.
ApiStockList ==
  << [ stock_id |-> StrId("6488"), type |-> "tpex" ],
     [ stock_id |-> StrId("2330"), type |-> "twse" ],
     [ stock_id |-> StrId("5483"), type |-> "tpex" ] >>

\* A list as read from real_stock_list.csv: pd.read_csv parses the id column
\* as integers.
CsvStockList ==
  << [ stock_id |-> IntId(2330), type |-> "twse" ],
     [ stock_id |-> IntId(6488), type |-> "otc" ] >>

\* What get_stock_list can return; the empty frame is an API answer whose
\* rows are all filtered out.
StockLists == { BackupStockList, ApiStockList, CsvStockList, << >> }

\* The stock_id arguments drawn: strings, and integers from 0.
StockIdArgs ==
  { StrId(s) : s \in { "2330", "6488", "9999" } }
    \cup { IntId(n) : n \in 0 .. MaxIndex }

\* Lines 827-835: an int below len(stock_list) is taken as a position in the
\* list; the id is then made a str.
NormalizeId(arg, list) ==
  IF arg.kind = "int"
  THEN str(IF arg.n < Len(list) THEN list[arg.n + 1].stock_id ELSE arg)
  ELSE str(arg)

\* Lines 856-863: the type of the first row of the list with this id.
LookupType(list, id) ==
  LET rows == { i \in DOMAIN list : list[i].stock_id = id }
  IN  IF rows = {} THEN "unknown"
      ELSE list[CHOOSE i \in rows : \A j \in rows : i <= j].type

\* Lines 842-853
NewResult(id, type) ==
  [ stock_id |-> id, type |-> type,
    price |-> None, institutional |-> None, margin |-> None,
    financial |-> None,
    eps |-> None, roe |-> None, trust_holding |-> None, error |-> None ]

\* The statements of the try block, in order.
TrySteps ==
  << "price", "institutional", "margin", "financial",
     "eps", "roe", "trust_holding", "log" >>

FetchSteps == { "price", "institutional", "margin", "financial" }

ResolveSteps == { "eps", "roe", "trust_holding" }

StepAfter(pc) ==
  LET i == CHOOSE j \in DOMAIN TrySteps : TrySteps[j] = pc
  IN  IF i < Len(TrySteps) THEN TrySteps[i + 1] ELSE "returned"

\* The resolver get_all_data calls for a key of the result.
ResolverOf(key) ==
  CASE key = "eps"           -> "get_eps_guaranteed"
    [] key = "roe"           -> "get_roe_guaranteed"
    [] key = "trust_holding" -> "get_trust_holding_percentage"

\* A handler that fills nothing in.
FillDefaults_Nothing(res) == res

\* Lines 929-935: a metric that is still None gets its default.
FillDefaults(res) ==
  [ res EXCEPT
      !.eps = IF res.eps = None
              THEN Some(get_default_eps(str(res.stock_id).s)) ELSE @,
      !.roe = IF res.roe = None
              THEN Some(get_default_roe(str(res.stock_id).s)) ELSE @,
      !.trust_holding =
              IF res.trust_holding = None
              THEN Some(get_default_trust_holding(str(res.stock_id).s))
              ELSE @ ]

\* ------------------------------------------------------------------------
\* StockScreenerEnhanced.run_screening
\* ------------------------------------------------------------------------

\* The instruments of the screened lists: rows of the backup list.
ScreenedIds == { "2330", "2303", "2886" }

\* The stock lists drawn: the arrangements of the subsets of ScreenedIds.
ScreenedLists ==
  UNION { { s \in [ 1 .. n -> ScreenedIds ] :
              \A i, j \in 1 .. n : i # j => s[i] # s[j] } :
          n \in 0 .. Cardinality(ScreenedIds) }

\* The conditions the screened configurations switch on: one decided from
\* the snapshot's ROE, two from its price series.
ScreenedConditions == { "roe", "daily_kd_golden", "break_60d_high" }

\* get_screening_params builds the full map.
ScreeningConfigs ==
  { ParamsOf(e, FALSE) : e \in SubsetsUpTo(ScreenedConditions, MaxEnabled) }

\* What get_all_data returns for an instrument whose providers yield
\* nothing: the defaults of the tables, and series on which the conditions
\* in obs hold.
ScreeningSnapshot(id, obs) ==
  StockData(Some(id), LookupType(BackupStockList, StrId(id)),
            Some(get_default_eps(id)), Some(get_default_roe(id)),
            Some(get_default_trust_holding(id)), obs)

ScreeningSnapshots(id, prm) ==
  { ScreeningSnapshot(id, o) :
      o \in SUBSET { k \in ObservedKeys \ { "eps", "roe" } :
                       prm[ParamKey(k)] = "on" } }

\* start_screening: self.stats reset
NewStats == [ total_stocks |-> 0, processed |-> 0, passed |-> 0, failed |-> 0 ]

\* An exception that leaves the loop for the handler of run_screening.
InnerExcept_Propagates == "aborted"

\* Lines 1028-1030: the handler inside the loop ends with `continue`.
InnerExcept == "loop"

\* The list as it is: no sort.
SortByScore_Unsorted(q) == q

\* Where r goes in a list in non-increasing order of score: after every
\* entry whose score is not smaller.
RECURSIVE InsertByScore(_, _)
InsertByScore(sorted, r) ==
  IF sorted = << >> THEN << r >>
  ELSE IF Head(sorted).score >= r.score
       THEN << Head(sorted) >> \o InsertByScore(Tail(sorted), r)
       ELSE << r >> \o sorted

\* qualified_stocks.sort(key=lambda x: x['score'], reverse=True): a stable
\* sort, entries of equal score keep their order.
RECURSIVE SortByScore(_)
SortByScore(q) ==
  IF q = << >> THEN << >>
  ELSE InsertByScore(SortByScore(SubSeq(q, 1, Len(q) - 1)), q[Len(q)])

\* One row of the history of the loop.
Outcome(id, how, passed) ==
  [ stock_id |-> id, outcome |-> how, passed |-> passed ]

\* ------------------------------------------------------------------------
\* The price series of a snapshot and the checks computed from it
\* ------------------------------------------------------------------------

\* One row of stock_data['price'].
Bar(close, max, min, volume) ==
  [ close |-> close, max |-> max, min |-> min, Trading_Volume |-> volume ]

\* The rows of price_df; None and an empty frame both have none.
Bars(df) == IF df = None THEN << >> ELSE df[1]

\* n rows equal to bar b.
Flat(n, b) == [ i \in 1 .. n |-> b ]

\* The sequences over S of length 0 .. n.
SeqsUpTo(S, n) == UNION { [ 1 .. m -> S ] : m \in 0 .. n }

\* Longest run of bars drawn freely at the end of a series.
MaxTail == 6

RECURSIVE Pow3(_)
Pow3(n) == IF n = 0 THEN 1 ELSE 3 * Pow3(n - 1)

\* K and D are carried as integers in units of 1 / KdScale: each smoothing
\* step divides by 3, so the values of the series drawn stay exact.
KdScale == Pow3(MaxTail + 1)

\* rolling(window=9) of the daily check, rolling(window=20) of the monthly.
DailyKdWindow == 9

MonthlyKdWindow == 20

\* price_df['max'].rolling(window=w).max() at row t: None (NaN) on the
\* first w - 1 rows.
RollingMax(bars, w, t) ==
  IF t < w THEN None
  ELSE Some(CHOOSE m \in { bars[i].max : i \in (t - w + 1) .. t } :
              \A i \in (t - w + 1) .. t : bars[i].max <= m)

RollingMin(bars, w, t) ==
  IF t < w THEN None
  ELSE Some(CHOOSE m \in { bars[i].min : i \in (t - w + 1) .. t } :
              \A i \in (t - w + 1) .. t : m <= bars[i].min)

\* rsv = (close - low) / (high - low) * 100, then fillna(50): NaN where the
\* window is incomplete or high = low = close.
Rsv(bars, w, t) ==
  LET high == RollingMax(bars, w, t)
      low == RollingMin(bars, w, t)
  IN  IF high = None \/ high = low THEN 50 * KdScale
      ELSE ((bars[t].close - low[1]) * 100 * KdScale) \div (high[1] - low[1])

\* k = rsv.ewm(com=2, adjust=False).mean(), d = k.ewm(com=2,
\* adjust=False).mean(): y[1] = x[1], y[t] = (2 * y[t-1] + x[t]) / 3.
\* st holds K and D at rows t - 1 and t; the result holds them at the last
\* two rows.
RECURSIVE KdFrom(_, _, _, _)
KdFrom(bars, w, t, st) ==
  IF t >= Len(bars) THEN st
  ELSE LET k == (2 * st.k + Rsv(bars, w, t + 1)) \div 3
           d == (2 * st.d + k) \div 3
       IN  KdFrom(bars, w, t + 1,
                  [ prev_k |-> st.k, prev_d |-> st.d, k |-> k, d |-> d ])

KdLast(bars, w) ==
  LET k1 == Rsv(bars, w, 1)
  IN  KdFrom(bars, w, 1, [ prev_k |-> k1, prev_d |-> k1, k |-> k1, d |-> k1 ])

\* A guard that lets every frame through.
HasHistory_Always(df, w) == TRUE

\* not (price_df is None or price_df.empty or len(price_df) < w)
HasHistory(df, w) == Len(Bars(df)) >= w

\* The body shared by check_kd_golden_with_value and
\* check_monthly_kd_golden_with_value: (passed, k, d).  A frame with fewer
\* than two rows that got past the guard fails the test len(k) >= 2 (or
\* raises, when it is None) and yields (False, None, None) as well.
KdGolden(df, w) ==
  IF ~HasHistory(df, w) \/ Len(Bars(df)) < 2
  THEN [ passed |-> FALSE, value |-> << >> ]
  ELSE LET st == KdLast(Bars(df), w)
       IN  [ passed |-> (st.prev_k <= st.prev_d) /\ (st.k > st.d),
             value |-> << st.k, st.d >> ]

check_kd_golden_with_value(df) == KdGolden(df, DailyKdWindow)

check_monthly_kd_golden_with_value(df) == KdGolden(df, MonthlyKdWindow)

\* f"{x:.1f}" of a value carried in units of 1 / scale.
Fmt1(x, scale) ==
  LET tenths == (20 * x + scale) \div (2 * scale)
  IN  ToString(tenths \div 10) \o "." \o ToString(tenths % 10)

\* values['daily_kd_golden'] / values['monthly_kd_golden'] of
\* check_all_conditions; prefix is "" for the daily key.
DisplayKd(res, prefix) ==
  IF res.value # << >>
  THEN prefix \o "K=" \o Fmt1(res.value[1], KdScale) \o ", "
         \o prefix \o "D=" \o Fmt1(res.value[2], KdScale)
  ELSE prefix \o "K=N/A, " \o prefix \o "D=N/A"

\* TechnicalCalculator.check_golden_cross: k and d are sequences of plain
\* K and D values.
Overbought == 80

check_golden_cross(k, d) ==
  IF Len(k) < 2 \/ Len(d) < 2 THEN FALSE
  ELSE LET cross == (k[Len(k)] > d[Len(d)]) /\ (k[Len(k) - 1] <= d[Len(d) - 1])
           not_overbought == k[Len(k)] < Overbought
       IN  cross /\ not_overbought

\* The three volume-surge blocks of check_all_conditions: the result key,
\* the days argument, params[...]['value'] as the form sets it (in tenths)
\* and the label of the display string.
VolumeTiers ==
  { [ key |-> "volume_surge_1_5x", days |-> 5, threshold |-> 15,
      label |-> "surge ratio" ],
    [ key |-> "volume_surge_20d_3x", days |-> 20, threshold |-> 30,
      label |-> "20-day surge" ],
    [ key |-> "volume_surge_60d_5x", days |-> 60, threshold |-> 50,
      label |-> "60-day surge" ] }

\* price_df['Trading_Volume'] summed over rows from .. to.
RECURSIVE SumVolume(_, _, _)
SumVolume(bars, from, to) ==
  IF from > to THEN 0
  ELSE bars[from].Trading_Volume + SumVolume(bars, from + 1, to)

\* The value returned where no ratio is computed: 0.0.
ZeroRatio == << 0, 1 >>

\* check_volume_surge_with_value: (passed, surge_ratio), the ratio as the
\* fraction << numerator, denominator >>.  The mean of the days rows before
\* the last is total / days, so latest / mean = latest * days / total.
check_volume_surge_with_value(df, threshold, days) ==
  LET bars == Bars(df)
      n == Len(bars)
  IN  IF n < days + 1 THEN [ passed |-> FALSE, value |-> ZeroRatio ]
      ELSE LET total == SumVolume(bars, n - days, n - 1)
               latest == bars[n].Trading_Volume
           IN  IF total > 0
               THEN [ passed |-> latest * days * 10 >= threshold * total,
                      value |-> << latest * days, total >> ]
               ELSE [ passed |-> FALSE, value |-> ZeroRatio ]

\* f"{x:.2f}" of the fraction num / den, a tie going to the even digit.
Fmt2(num, den) ==
  LET q == (100 * num) \div den
      r == (100 * num) % den
      h == IF 2 * r > den THEN q + 1
           ELSE IF 2 * r = den THEN q + (q % 2)
           ELSE q
  IN  ToString(h \div 100) \o "." \o ToString((h % 100) \div 10)
        \o ToString(h % 10)

\* f"{threshold}" of a float carried in tenths.
FmtFloat(tenths) == ToString(tenths \div 10) \o "." \o ToString(tenths % 10)

\* values['volume_surge_...'] of check_all_conditions.
DisplayVolumeSurge(res, threshold, label) ==
  label \o ": " \o Fmt2(res.value[1], res.value[2]) \o "x (threshold: "
    \o FmtFloat(threshold) \o "x)"

\* The arguments and the result of a series check, before any is applied.
NoSeriesArgs ==
  [ key |-> "", days |-> 0, threshold |-> 0, label |-> "",
    k |-> << >>, d |-> << >>, stock_id |-> None ]

NoSeriesResult == [ passed |-> FALSE, value |-> << >>, display |-> "" ]

\* ------------------------------------------------------------------------
\* The series drawn
\* ------------------------------------------------------------------------

\* Bars between a low of 10 and a high of 20 that close at the low, in the
\* middle or at the high: RSV 0, 50, 100 once the window is complete.
KdBars == { Bar(c, 20, 10, 10) : c \in { 10, 15, 20 } }

\* A quiet stretch of 0, 5, w - 2 or w - 1 bars, then up to MaxTail bars.
KdFrames(w) ==
  { Some(Flat(lead, Bar(15, 20, 10, 10)) \o tail) :
      lead \in { 0, 5, w - 2, w - 1 }, tail \in SeqsUpTo(KdBars, MaxTail) }
    \cup { None }

MaxVolumeTail == 2

VolumeBars == { Bar(15, 20, 10, v) : v \in { 0, 10, 15, 50 } }

\* A stretch of days - 1 or days bars of one volume (or none), then up to
\* MaxVolumeTail bars.
VolumeFrames(days) ==
  { Some(Flat(lead, Bar(15, 20, 10, v)) \o tail) :
      lead \in { 0, days - 1, days }, v \in { 0, 10 },
      tail \in SeqsUpTo(VolumeBars, MaxVolumeTail) }
    \cup { None }

\* K / D series handed to TechnicalCalculator.check_golden_cross.
MaxPoints == 2

KdPoints == { 20, 50, 79, 80, 90 }

KdPointSeries == SeqsUpTo(KdPoints, MaxPoints)

\* ------------------------------------------------------------------------
\* The 60-day high
\* ------------------------------------------------------------------------

\* The window of check_break_60d_high_with_value and the default of
\* check_new_high.
HighWindow == 60

\* The largest of a non-empty set of numbers.
MaxOf(S) == CHOOSE m \in S : \A x \in S : x <= m

\* check_break_60d_high_with_value: (passed, latest_price, high_60d).
\* price_df['max'].tail(60) ends with the latest bar.
check_break_60d_high_with_value(df) ==
  IF ~HasHistory(df, HighWindow) THEN [ passed |-> FALSE, value |-> None ]
  ELSE LET bars == Bars(df)
           n == Len(bars)
           high_60d == MaxOf({ bars[i].max : i \in (n - HighWindow + 1) .. n })
           latest_price == bars[n].close
       IN  [ passed |-> latest_price >= high_60d,
             value |-> << latest_price, high_60d >> ]

\* values['break_60d_high'] of check_all_conditions.
DisplayBreakHigh(res) ==
  IF res.value # None
  THEN "price: " \o Fmt1(res.value[1], 1) \o ", 60-day high: "
         \o Fmt1(res.value[2], 1)
  ELSE "price: N/A, 60-day high: N/A"

\* TechnicalCalculator.check_new_high(df, days): the latest close above the
\* closes of the days bars before it.
check_new_high(df, days) ==
  LET bars == Bars(df)
      n == Len(bars)
  IN  IF n < days + 1 THEN FALSE
      ELSE bars[n].close > MaxOf({ bars[i].close : i \in (n - days) .. (n - 1) })

\* Bars that close at or under their high, around the quiet bar's high of
\* 20.
HighBars ==
  { Bar(15, 20, 10, 10), Bar(20, 20, 10, 10), Bar(21, 22, 10, 10),
    Bar(25, 25, 10, 10) }

MaxHighTail == 2

\* A quiet stretch of a little under or just the window, then up to
\* MaxHighTail bars.
HighFrames ==
  { Some(Flat(lead, Bar(15, 20, 10, 10)) \o tail) :
      lead \in { HighWindow - 2, HighWindow - 1, HighWindow },
      tail \in SeqsUpTo(HighBars, MaxHighTail) }
    \cup { None }

\* ------------------------------------------------------------------------
\* run_screening: the market scope
\* ------------------------------------------------------------------------

\* markets of run_screening, from the two market switches the engine also
\* reads: 'twse' for market_twse, 'otc' and 'tpex' for market_otc.  (The
\* form's third switch, market_emerging, adds 'emerging', a type none of
\* the instruments here carries.)
MarketScope(prm) ==
  ( IF IsEnabled(prm, "market_twse") THEN { "twse" } ELSE {} )
    \cup ( IF IsEnabled(prm, "market_otc") THEN { "otc", "tpex" } ELSE {} )

\* stock_list[stock_list['type'].isin(markets)]: a row stays when no
\* market is chosen or its type is one of the markets.
Admitted(prm, type) == MarketScope(prm) = {} \/ type \in MarketScope(prm)

\* ------------------------------------------------------------------------
\* RealDataIntegrationFinal: the exchange as the providers see it
\* ------------------------------------------------------------------------

\* No provider answers: every request raises or comes back empty.
ExchangeDown ==
  [ up |-> FALSE, warning |-> {}, disposition |-> {}, yield |-> 0 ]

\* The exchange a provider can find: down, or up with the instrument 2330 on
\* none, one or both of the warning and disposition lists, and a dividend
\* yield (in tenths of a percent) in the valuation feed.
Exchanges ==
  { ExchangeDown }
    \cup { [ up |-> TRUE, warning |-> w, disposition |-> d, yield |-> y ] :
             w \in { {}, { "2330" } }, d \in { {}, { "2330" } },
             y \in { 0, 45 } }

\* A lookup that takes every instrument it is asked about for flagged when
\* the request fails.
get_warning_stocks_FailClosed(ex) ==
  IF ex.up THEN ex.warning ELSE { "2330", "2303", "6488", "5483" }

\* get_warning_stocks / get_disposition_stocks: the list the exchange
\* publishes, [] when the request fails.
get_warning_stocks(ex) == IF ex.up THEN ex.warning ELSE {}

get_disposition_stocks(ex) == IF ex.up THEN ex.disposition ELSE {}

\* The integrator's lists as a record.
SpecialLists(w, d, last) ==
  [ warning_stocks |-> w, disposition_stocks |-> d,
    last_special_update |-> last ]

\* A lookup that trusts the lists it holds, whatever their age.
NeedsRefresh_Never(lists) == FALSE

\* The seconds after which is_warning_or_disposition fetches the lists
\* again.
SpecialTtl == 3600

\* datetime.now() - self.last_special_update as the timedelta it is, days
\* and seconds apart, for the ages told apart: ten minutes ("fresh"), two
\* hours ("stale"), a day and ten minutes ("day_old").
Elapsed(last) ==
  CASE last = "fresh"   -> [ days |-> 0, seconds |-> 600 ]
    [] last = "stale"   -> [ days |-> 0, seconds |-> 7200 ]
    [] last = "day_old" -> [ days |-> 1, seconds |-> 600 ]

\* timedelta.total_seconds()
TotalSeconds(delta) == delta.days * 86400 + delta.seconds

\* self.last_special_update is None or
\* (datetime.now() - self.last_special_update).seconds > 3600: the seconds
\* field of the timedelta, which leaves the days out.
NeedsRefresh(lists) ==
  \/ lists.last_special_update = "none"
  \/ Elapsed(lists.last_special_update).seconds > SpecialTtl

\* is_warning_or_disposition, the refresh: the lists it leaves behind and
\* the requests it issued.
RefreshLists(ex, lists) ==
  IF NeedsRefresh(lists)
  THEN [ lists |-> SpecialLists(get_warning_stocks(ex),
                                get_disposition_stocks(ex), "fresh"),
         requests |-> << "get_warning_stocks", "get_disposition_stocks" >> ]
  ELSE [ lists |-> lists, requests |-> << >> ]

\* is_warning_or_disposition, the answer, from the lists after the refresh.
is_warning(lists, id) == id \in lists.warning_stocks

is_disposition(lists, id) == id \in lists.disposition_stocks

\* _get_price_limit, in tenths of a percent: 5.0 for a disposition stock,
\* 10.0 otherwise.
DispositionLimit == 50

RegularLimit == 100

\* A limit that ignores the disposition flag.
get_price_limit_Regular(flagged) == RegularLimit

get_price_limit(flagged) == IF flagged THEN DispositionLimit ELSE RegularLimit

\* change_pct >= threshold and abs(curr_close - curr_high) < prev_close *
\* 0.001, the threshold in tenths of a percent.
IsLimitUp(prev_close, curr_close, curr_high, threshold) ==
  /\ (curr_close - prev_close) * 1000 >= threshold * prev_close
  /\ ( IF curr_close >= curr_high THEN curr_close - curr_high
       ELSE curr_high - curr_close ) * 1000 < prev_close

\* check_consecutive_limit_up, the loop from its i-th round on: the bars
\* counted from the last one back, rounds being the range of the loop.  A
\* previous close that is not positive is stepped over.
RECURSIVE CountLimitUp(_, _, _, _)
CountLimitUp(bars, i, rounds, threshold) ==
  IF i >= rounds THEN 0
  ELSE LET n == Len(bars)
           prev_close == bars[n - i - 1].close
           curr == bars[n - i]
       IN  IF prev_close > 0
           THEN IF IsLimitUp(prev_close, curr.close, curr.max, threshold)
                THEN 1 + CountLimitUp(bars, i + 1, rounds, threshold)
                ELSE 0
           ELSE CountLimitUp(bars, i + 1, rounds, threshold)

\* check_consecutive_limit_up: (is_not_consecutive_limit,
\* recent_consecutive); flagged is what is_warning_or_disposition answers
\* for the instrument.
check_consecutive_limit_up(bars, flagged, days) ==
  IF Len(bars) < days + 1 THEN [ passed |-> FALSE, value |-> << 0 >> ]
  ELSE LET limit_threshold == get_price_limit(flagged) - 1
           rounds == Min(days, Len(bars) - 1)
           recent_consecutive == CountLimitUp(bars, 0, rounds, limit_threshold)
       IN  [ passed |-> recent_consecutive < days,
             value |-> << recent_consecutive >> ]

\* check_not_limit_up_with_value without a stock id, the loop from round i
\* on: the threshold is 9.9 and the bar before the first one of the frame
\* is taken to close where the bar itself closes.
RECURSIVE CountLimitUpNoId(_, _, _)
CountLimitUpNoId(bars, i, last) ==
  IF i > last THEN 0
  ELSE LET n == Len(bars)
           curr == bars[n - i + 1]
           prev_close == IF i < n - 1 THEN bars[n - i].close ELSE curr.close
       IN  IF prev_close > 0
           THEN IF IsLimitUp(prev_close, curr.close, curr.max, RegularLimit - 1)
                THEN 1 + CountLimitUpNoId(bars, i + 1, last)
                ELSE 0
           ELSE CountLimitUpNoId(bars, i + 1, last)

\* check_not_limit_up_with_value: (passed, limit_days)
check_not_limit_up_with_value(df, days, id, flagged) ==
  LET bars == Bars(df)
  IN  IF Len(bars) = 0 \/ Len(bars) < days
      THEN [ passed |-> TRUE, value |-> << 0 >> ]
      ELSE IF id # None /\ id # Some("")
      THEN check_consecutive_limit_up(bars, flagged, days)
      ELSE LET limit_up_days ==
                 CountLimitUpNoId(bars, 1, Min(days + 1, Len(bars)) - 1)
           IN  [ passed |-> limit_up_days < days,
                 value |-> << limit_up_days >> ]

\* Whether check_not_limit_up_with_value gets as far as _get_price_limit.
AsksPriceLimit(df, days, id) ==
  /\ Len(Bars(df)) >= days + 1
  /\ id # None /\ id # Some("")

\* values['not_limit_up'] of check_all_conditions.
DisplayLimitUp(res, days) ==
  "limit-up run: " \o ToString(res.value[1]) \o " days (threshold: <"
    \o ToString(days) \o " days)"

\* Largest exclusion threshold drawn; frames have up to one bar more.
MaxLimitDays == 3

\* Bars that close at their high or a tick below it.
LimitBars ==
  { Bar(1000, 1000, 990, 10), Bar(1050, 1050, 1000, 10),
    Bar(1050, 1051, 1000, 10), Bar(1103, 1103, 1050, 10),
    Bar(1103, 1104, 1050, 10), Bar(1159, 1159, 1103, 10) }

LimitFrames ==
  { Some(bars) : bars \in SeqsUpTo(LimitBars, MaxLimitDays + 1) }
    \cup { None }

\* The integrator before the check: its lists and the exchange of the
\* moment.
IntegratorStates ==
  { [ lists |-> SpecialLists({}, {}, "none"), ex |-> ex ] :
      ex \in { ExchangeDown,
               [ up |-> TRUE, warning |-> {}, disposition |-> {}, yield |-> 0 ],
               [ up |-> TRUE, warning |-> {}, disposition |-> { "2330" },
                 yield |-> 0 ] } }
    \cup
  { [ lists |-> SpecialLists({}, { "2330" }, age),
      ex |-> [ up |-> TRUE, warning |-> {}, disposition |-> {}, yield |-> 0 ] ] :
      age \in { "fresh", "stale" } }
    \cup
  { [ lists |-> SpecialLists({}, {}, "fresh"),
      ex |-> [ up |-> TRUE, warning |-> {}, disposition |-> { "2330" },
               yield |-> 0 ] ] }

\* ------------------------------------------------------------------------
\* check_all_conditions with the integrator's feeds spelled out
\* ------------------------------------------------------------------------

\* params['yield']['value'] as the form sets it, in tenths of a percent.
YieldThreshold == 30

\* get_real_dividend_yield: the last dividend_yield of the valuation feed,
\* 0.0 when the request fails or brings nothing.
get_real_dividend_yield(ex) == IF ex.up THEN ex.yield ELSE 0

\* The conditions check_all_conditions decides by asking the integrator
\* for the instrument of the snapshot.
FeedKeys == { "yield", "not_warning", "not_disposition" }

\* Whether the call reaches is_warning_or_disposition.
AsksSpecialLists(prm, sd) ==
  /\ HasStockId(sd)
  /\ IsEnabled(prm, "not_warning") \/ IsEnabled(prm, "not_disposition")

\* The integrator's lists after the call: check_not_warning comes first
\* and refreshes them when they are due, check_not_disposition then finds
\* them fresh.
ListsAfterCheck(prm, sd, ex, lists) ==
  IF AsksSpecialLists(prm, sd) THEN RefreshLists(ex, lists).lists ELSE lists

\* The requests check_all_conditions issues, in the order of its blocks.
RequestsOfCheck(prm, sd, ex, lists) ==
  ( IF sd.is_dict /\ HasStockId(sd) /\ IsEnabled(prm, "yield")
    THEN << "get_real_dividend_yield" >> ELSE << >> )
  \o ( IF sd.is_dict /\ AsksSpecialLists(prm, sd)
       THEN RefreshLists(ex, lists).requests ELSE << >> )

\* The snapshot with the outcome of the feed lookups filled in: the yield
\* above the threshold, the instrument on neither list.
WithFeeds(prm, sd, ex, lists) ==
  IF ~sd.is_dict \/ ~HasStockId(sd) THEN sd
  ELSE LET after == ListsAfterCheck(prm, sd, ex, lists)
           id == sd.stock_id[1]
       IN  [ sd EXCEPT !.obs =
               (sd.obs \ FeedKeys)
                 \cup ( IF get_real_dividend_yield(ex) > YieldThreshold
                        THEN { "yield" } ELSE {} )
                 \cup ( IF ~is_warning(after, id)
                        THEN { "not_warning" } ELSE {} )
                 \cup ( IF ~is_disposition(after, id)
                        THEN { "not_disposition" } ELSE {} ) ]

\* The configurations and snapshots drawn: one condition decided from the
\* snapshot alone next to the three decided through the integrator, and
\* snapshots that carry their EPS.
FeedConditions == { "eps", "yield", "exclude_warning", "exclude_disposition" }

FeedConfigs == { ParamsOf(e, FALSE) : e \in SUBSET FeedConditions }

FeedSnapshots ==
  { p \in Profiles : p.eps # None \/ ~HasStockId(p) } \cup { NotADict }

FeedLists ==
  { SpecialLists({}, {}, "none") }
    \cup { SpecialLists(w, d, "fresh") :
             w \in { {}, { "2330" } }, d \in { {}, { "2330" } } }

\* ------------------------------------------------------------------------
\* FinMindAPI: _throttle and _make_request
\* ------------------------------------------------------------------------

\* self.max_retries
MaxRetries == 3

\* self.min_request_interval, in tenths of a second
MinRequestInterval == 2

\* The threads that may share one FinMindAPI instance.
NumThreads == 2

Threads == 1 .. NumThreads

\* How far the clock runs past the construction of the instance, in tenths
\* of a second.
MaxClock == 3

\* What requests.get can come back with: a v4 body with status 200, a v3
\* body without a status, a v4 body with an error status whose msg names
\* the token or does not, HTTP 429, HTTP 404, HTTP 500, a 200 whose body is
\* not JSON, requests.exceptions.Timeout and ConnectionError.
GetOutcomes ==
  { "ok_v4", "ok_v3", "body_error_token", "body_error", "http_429",
    "http_404", "http_500", "malformed_json", "timeout",
    "connection_error" }

\* The failures a repeated request can cure, and the ones it cannot.
TransientFailures == { "timeout", "connection_error", "http_429" }

StructuralFailures ==
  { "http_404", "malformed_json", "body_error", "body_error_token" }

\* _make_request, the body of the loop after requests.get came back with
\* response r on attempt number attempt (from 0): what the call does next
\* and, when it returns, what it returns.  Every branch that does not
\* return falls through to the sleep at the end of the loop body, and the
\* loop running out returns None.
AfterResponse(r, attempt) ==
  IF r \in { "ok_v4", "ok_v3" }
  THEN [ pc |-> "returned", result |-> Some("data") ]
  ELSE IF r = "body_error_token"
  THEN [ pc |-> "returned", result |-> None ]
  ELSE IF attempt < MaxRetries - 1
  THEN [ pc |-> "backoff", result |-> None ]
  ELSE [ pc |-> "returned", result |-> None ]

\* _throttle, the sleep it decides on from the clock and last_request_time:
\* 0 when the interval has already passed.
ThrottleSleep(now, last) ==
  IF now - last < MinRequestInterval
  THEN MinRequestInterval - (now - last)
  ELSE 0

\* ------------------------------------------------------------------------
\* RealDataIntegrationFinal.get_trust_holding_percentage and the requests
\* it issues
\* ------------------------------------------------------------------------

\* The requests of the lookup and the timeout each is issued with, in
\* seconds: _get_trust_holding_from_twse and
\* _calculate_trust_holding_from_history pass timeout=10, _get_stock_info
\* passes none, so that requests.get waits as long as the peer stays
\* silent.
RequestTimeout(request) ==
  IF request \in { "twse_request", "buysell_request" } THEN Some(10)
  ELSE None

\* Months _get_trust_holding_from_twse asks for, the current one first.
TwseMonths == 3

\* The percentage the share-distribution table gives for the instrument,
\* in tenths of a percent; only 0 < pct < 100 is taken.
TwsePct(answer) ==
  IF answer > 0 /\ answer < 1000 THEN answer ELSE 0

\* _calculate_trust_holding_from_history, the arithmetic: the cumulative
\* net shares over total_shares = Capital * 100, as a percentage kept
\* between 0 and 20, in tenths of a percent.
HoldingFromHistory(cumulative_shares, capital) ==
  LET shares == IF cumulative_shares < 0 THEN 0 - cumulative_shares
                ELSE cumulative_shares
      holding_pct == (shares * 10) \div capital
  IN  IF holding_pct > 200 THEN 200 ELSE holding_pct

\* default_holdings of get_trust_holding_percentage, in tenths of a
\* percent; 0.0 for every other instrument.
DefaultHolding(id) ==
  IF id = "2330" THEN 8
  ELSE IF id = "2454" THEN 45
  ELSE IF id = "2881" THEN 32
  ELSE IF id = "3008" THEN 65
  ELSE 0

\* The instruments looked up, what the table can give for the month asked
\* (0 for nothing), the cumulative net shares the buy/sell feed can add up
\* to and the Capital the instrument feed can carry.
HoldingIds == { "2330", "2454", "2881", "3008", "6488" }

TwseAnswers == { 0, 12 }

NetShares == { 0 - 300, 0, 30 }

Capitals == { 100, 1 }

\* ------------------------------------------------------------------------
\* TrustHoldingFetcher: the cache and the two sources
\* ------------------------------------------------------------------------

\* A row of the share-distribution table: the label of its first cell and
\* the percentage of its last cell in hundredths of a percent, None when
\* the cell is not a number.  "trust" stands for a label that names the
\* investment trusts, "400" for a holding level of 400 lots or more, "50"
\* for a level between 50 and 400 lots, "other" for any other label.
Row(label, pct) == [ label |-> label, pct |-> pct ]

\* _parse_holding_data, first pass: the percentage of the first row that
\* names the investment trusts and carries a number.
RECURSIVE FirstPct(_, _)
FirstPct(rows, labels) ==
  IF rows = << >> THEN None
  ELSE IF Head(rows).label \in labels /\ Head(rows).pct # None
  THEN Head(rows).pct
  ELSE FirstPct(Tail(rows), labels)

\* _parse_holding_data, third pass: the percentages of the large holders
\* added up.
RECURSIVE SumPct(_, _)
SumPct(rows, labels) ==
  IF rows = << >> THEN 0
  ELSE ( IF Head(rows).label \in labels /\ Head(rows).pct # None
         THEN Head(rows).pct[1] ELSE 0 )
       + SumPct(Tail(rows), labels)

\* _parse_holding_data: the trust row, else a quarter of the first level of
\* 400 lots or more, else 12% of the large holders when that is positive,
\* else 0.0.
parse_holding_data(rows) ==
  LET trust == FirstPct(rows, { "trust" })
      large == FirstPct(rows, { "400" })
      total_large_holders == SumPct(rows, { "50", "400" })
  IN  IF trust # None THEN trust[1]
      ELSE IF large # None THEN large[1] \div 4
      ELSE IF total_large_holders > 0 THEN (total_large_holders * 3) \div 25
      ELSE 0

\* _parse_otc_holding: the percentage of the first row that names the
\* investment trusts, else 0.0.
parse_otc_holding(rows) ==
  LET trust == FirstPct(rows, { "trust" })
  IN  IF trust # None THEN trust[1] ELSE 0

\* self.cache[cache_key] = (holding_pct, time.time()) follows the parse
\* with no test of the value.
Cacheable(holding_pct) == TRUE

\* An entry of self.cache: the percentage and whether its timestamp is less
\* than cache_duration old.
CacheEntry(pct, fresh) == [ pct |-> pct, fresh |-> fresh ]

\* get_trust_holding_from_otc: answer is None when the request fails, the
\* status is not 200 or 'aaData' is missing or empty, else the rows.  The
\* value returned, the entry written and the source asked.
FromOtc(answer) ==
  IF answer # None
  THEN LET holding_pct == parse_otc_holding(answer[1])
       IN  [ returned |-> holding_pct,
             store |-> IF Cacheable(holding_pct)
                       THEN Some(CacheEntry(holding_pct, TRUE)) ELSE None,
             asked |-> << "otc" >> ]
  ELSE [ returned |-> 0, store |-> None, asked |-> << "otc" >> ]

\* get_trust_holding_from_twse: a fresh cache entry answers; else the
\* exchange is asked and, when it brings rows, their parse is cached and
\* returned; else get_trust_holding_from_otc answers.
FromTwse(entry, twse, otc) ==
  IF entry # None /\ entry[1].fresh
  THEN [ returned |-> entry[1].pct, store |-> None, asked |-> << >> ]
  ELSE IF twse # None
  THEN LET holding_pct == parse_holding_data(twse[1])
       IN  [ returned |-> holding_pct,
             store |-> IF Cacheable(holding_pct)
                       THEN Some(CacheEntry(holding_pct, TRUE)) ELSE None,
             asked |-> << "twse" >> ]
  ELSE LET fallback == FromOtc(otc)
       IN  [ fallback EXCEPT !.asked = << "twse" >> \o fallback.asked ]

\* The rows drawn: a trust row with 1.25% or with a last cell that is not a
\* number, levels with 4.00% and 1.00%, a row of small holders.
FetcherRows ==
  { Row("trust", Some(125)), Row("trust", None), Row("400", Some(400)),
    Row("50", Some(100)), Row("other", Some(900)) }

MaxRows == 2

\* What a source can answer: nothing usable, or one to MaxRows rows.
SourceAnswers ==
  { None } \cup { Some(rows) : rows \in SeqsUpTo(FetcherRows, MaxRows) \ { << >> } }

\* What the over-the-counter source can answer.
OtcAnswers ==
  { None, Some(<< Row("trust", Some(125)) >>),
    Some(<< Row("other", Some(900)) >>) }

FetcherIds == { "2330", "6488" }

\* Lookups made on one fetcher.
MaxLookups == 3

\* ------------------------------------------------------------------------
\* Components at rest
\* ------------------------------------------------------------------------

NoCheckResult ==
  /\ check_result = NotADictResult
  /\ engine_pc = "idle"

EngineIdle ==
  /\ params = ParamsOf({}, FALSE)
  /\ min_conditions = 0
  /\ stock_data = NotADict
  /\ NoCheckResult

ScoringIdle ==
  /\ score_input = NotADictInput
  /\ score = ScoreError
  /\ scoring_pc = "idle"

ResolverIdle ==
  /\ resolver = "get_eps_guaranteed"
  /\ resolver_id = ""
  /\ calls = << >>
  /\ resolved = None
  /\ resolver_pc = "idle"

FetchIdle ==
  /\ stock_list = << >>
  /\ stock_id_arg = StrId("")
  /\ result = NewResult(StrId(""), "unknown")
  /\ fetch_pc = "idle"

ScreeningIdle ==
  /\ run_list = << >>
  /\ idx = 0
  /\ stop_screening = FALSE
  /\ qualified_stocks = << >>
  /\ stats = NewStats
  /\ outcomes = << >>
  /\ stop_at = None
  /\ screening_pc = "idle"

SeriesIdle ==
  /\ price_df = None
  /\ series_fn = "none"
  /\ series_args = NoSeriesArgs
  /\ series_result = NoSeriesResult
  /\ series_pc = "idle"

IntegratorIdle ==
  /\ exchange = ExchangeDown
  /\ warning_stocks = {}
  /\ disposition_stocks = {}
  /\ last_special_update = "none"
  /\ network_calls = << >>
  /\ first_result = None

FinMindIdle ==
  /\ fm_threads = {}
  /\ fm_answers = {}
  /\ fm_pc = [ t \in Threads |-> "idle" ]
  /\ fm_attempt = [ t \in Threads |-> 0 ]
  /\ fm_last = [ t \in Threads |-> "none" ]
  /\ fm_result = [ t \in Threads |-> None ]
  /\ fm_wake_at = [ t \in Threads |-> 0 ]
  /\ fm_started = [ t \in Threads |-> None ]
  /\ last_request_time = 0
  /\ clock = 0

HoldingIdle ==
  /\ th_id = ""
  /\ th_pc = "idle"
  /\ th_month = 0
  /\ th_net = 0
  /\ th_result = None

FetcherIdle ==
  /\ tf_cache = [ id \in FetcherIds |-> None ]
  /\ tf_last = None
  /\ tf_lookups = 0

ProvidersIdle == FinMindIdle /\ HoldingIdle /\ FetcherIdle

\* ------------------------------------------------------------------------
\* Specification of the engine: an engine is built, check_all_conditions is
\* called on a snapshot and the result is scored
\* ------------------------------------------------------------------------

\* CompleteScreeningEngine(parameters), min_conditions as run_screening
\* sets it, and the snapshot the engine is about to be given
InitEngine ==
  /\ params \in Configs
  /\ min_conditions \in 0 .. MaxMinConditions
  /\ stock_data \in SnapshotsFor(params)
  /\ NoCheckResult
  /\ ScoringIdle
  /\ ResolverIdle
  /\ FetchIdle
  /\ ScreeningIdle
  /\ SeriesIdle
  /\ IntegratorIdle
  /\ ProvidersIdle

\* screening_engine.check_all_conditions(stock_data)
CheckCall ==
  /\ engine_pc = "idle"
  /\ check_result' = CheckAllConditions(params, min_conditions, stock_data)
  /\ engine_pc' = "checked"
  /\ UNCHANGED << params, min_conditions, stock_data, scoring_vars,
                  resolver_vars, fetch_vars, screening_vars,
       series_vars, integrator_vars,
                  provider_vars >>

\* scoring_system.calculate_score(check_result)
ScoreCheckResult ==
  /\ engine_pc = "checked"
  /\ score_input' = ScoreInput(check_result.verdicts)
  /\ score' = CalculateScore(ScoreInput(check_result.verdicts))
  /\ scoring_pc' = "scored"
  /\ engine_pc' = "scored"
  /\ UNCHANGED << params, min_conditions, stock_data, check_result,
                  resolver_vars, fetch_vars, screening_vars,
                  series_vars, integrator_vars, provider_vars >>

NextEngine == CheckCall \/ ScoreCheckResult

SpecEngine == InitEngine /\ [][NextEngine]_vars

\* ------------------------------------------------------------------------
\* Specification of the scoring system alone: calculate_score on any input
\* ------------------------------------------------------------------------

InitScoring ==
  /\ EngineIdle
  /\ score_input \in ScoreInputs
  /\ score = ScoreError
  /\ scoring_pc = "idle"
  /\ ResolverIdle
  /\ FetchIdle
  /\ ScreeningIdle
  /\ SeriesIdle
  /\ IntegratorIdle
  /\ ProvidersIdle

\* calculate_score(check_result)
CalculateScoreCall ==
  /\ scoring_pc = "idle"
  /\ score' = CalculateScore(score_input)
  /\ scoring_pc' = "scored"
  /\ UNCHANGED << engine_vars, score_input, resolver_vars, fetch_vars,
                  screening_vars,
       series_vars, integrator_vars,
                  provider_vars >>

NextScoring == CalculateScoreCall

SpecScoring == InitScoring /\ [][NextScoring]_vars

\* ------------------------------------------------------------------------
\* Specification of the resolvers: one resolver is called for one
\* instrument; each provider it reaches answers in any of the ways a
\* provider can
\* ------------------------------------------------------------------------

InitResolver ==
  /\ EngineIdle
  /\ ScoringIdle
  /\ resolver \in Resolvers
  /\ resolver_id \in ResolverIds
  /\ calls = << >>
  /\ resolved = None
  /\ resolver_pc = "running"
  /\ FetchIdle
  /\ ScreeningIdle
  /\ SeriesIdle
  /\ IntegratorIdle
  /\ ProvidersIdle

\* One row of the trace of invocations.
Call(p, how, v) == [ provider |-> p, response |-> how, result |-> v ]

\* The next provider of the chain is invoked; its result is returned when
\* it is accepted, else the resolver goes on.
CallProvider ==
  /\ resolver_pc = "running"
  /\ Len(calls) < Len(ProviderChain(resolver))
  /\ \E resp \in Responses :
       LET p == ProviderChain(resolver)[Len(calls) + 1]
           v == ProviderResult(p, resp)
       IN  /\ calls' = Append(calls, Call(p, resp.kind, v))
           /\ IF Accepted(v)
              THEN /\ resolved' = Some(v)
                   /\ resolver_pc' = "returned"
              ELSE UNCHANGED << resolved, resolver_pc >>
  /\ UNCHANGED << resolver, resolver_id, engine_vars, scoring_vars,
                  fetch_vars, screening_vars,
       series_vars, integrator_vars,
                  provider_vars >>

\* No provider is left: the default is looked up and returned.
UseDefault ==
  /\ resolver_pc = "running"
  /\ Len(calls) = Len(ProviderChain(resolver))
  /\ LET v == DefaultValue(resolver, resolver_id)
     IN  /\ calls' = Append(calls, Call(DefaultProvider(resolver), "table", v))
         /\ resolved' = Some(v)
  /\ resolver_pc' = "returned"
  /\ UNCHANGED << resolver, resolver_id, engine_vars, scoring_vars,
                  fetch_vars, screening_vars,
       series_vars, integrator_vars,
                  provider_vars >>

NextResolver == CallProvider \/ UseDefault

SpecResolver == InitResolver /\ [][NextResolver]_vars

\* ------------------------------------------------------------------------
\* Specification of get_all_data: one call, for a str or an int id; every
\* statement of the try block either completes or lets an exception escape
\* to the handler
\* ------------------------------------------------------------------------

InitFetch ==
  /\ EngineIdle
  /\ ScoringIdle
  /\ ResolverIdle
  /\ stock_list \in StockLists
  /\ stock_id_arg \in StockIdArgs
  /\ result = NewResult(StrId(""), "unknown")
  /\ fetch_pc = "called"
  /\ ScreeningIdle
  /\ SeriesIdle
  /\ IntegratorIdle
  /\ ProvidersIdle

\* Lines 827-863: the id is normalised, the result dict is created, the
\* type is looked up in the stock list.
GetAllDataEnter ==
  /\ fetch_pc = "called"
  /\ LET id == NormalizeId(stock_id_arg, stock_list)
     IN  result' = NewResult(id, LookupType(stock_list, id))
  /\ fetch_pc' = TrySteps[1]
  /\ UNCHANGED << stock_list, stock_id_arg, engine_vars, scoring_vars,
                  resolver_vars, screening_vars,
       series_vars, integrator_vars,
                  provider_vars >>

\* Lines 866-887: a series is fetched and stored.
GetAllDataFetch ==
  /\ fetch_pc \in FetchSteps
  /\ result' = [ result EXCEPT ![fetch_pc] = Some("DataFrame") ]
  /\ fetch_pc' = StepAfter(fetch_pc)
  /\ UNCHANGED << stock_list, stock_id_arg, engine_vars, scoring_vars,
                  resolver_vars, screening_vars,
       series_vars, integrator_vars,
                  provider_vars >>

\* Lines 889-908: a metric is resolved and stored.
GetAllDataResolve ==
  /\ fetch_pc \in ResolveSteps
  /\ \E v \in ResolverReturns(ResolverOf(fetch_pc), str(result.stock_id).s) :
       result' = [ result EXCEPT ![fetch_pc] = Some(v) ]
  /\ fetch_pc' = StepAfter(fetch_pc)
  /\ UNCHANGED << stock_list, stock_id_arg, engine_vars, scoring_vars,
                  resolver_vars, screening_vars,
       series_vars, integrator_vars,
                  provider_vars >>

\* Lines 910-923 and 937: the summary is logged and the result returned.
GetAllDataReturn ==
  /\ fetch_pc = "log"
  /\ fetch_pc' = StepAfter(fetch_pc)
  /\ UNCHANGED << stock_list, stock_id_arg, result, engine_vars,
                  scoring_vars, resolver_vars, screening_vars,
       series_vars, integrator_vars,
                  provider_vars >>

\* Lines 925-937: an exception escapes the statement the try block is at
\* (a progress callback, a fetch, a resolver, a log call); the handler
\* records it, fills the metrics in and the result is returned.
GetAllDataExcept ==
  /\ fetch_pc \in FetchSteps \cup ResolveSteps \cup { "log" }
  /\ result' = FillDefaults([ result EXCEPT !.error = Some("error") ])
  /\ fetch_pc' = "returned"
  /\ UNCHANGED << stock_list, stock_id_arg, engine_vars, scoring_vars,
                  resolver_vars, screening_vars,
       series_vars, integrator_vars,
                  provider_vars >>

NextFetch ==
  \/ GetAllDataEnter
  \/ GetAllDataFetch
  \/ GetAllDataResolve
  \/ GetAllDataReturn
  \/ GetAllDataExcept

SpecFetch == InitFetch /\ [][NextFetch]_vars

\* ------------------------------------------------------------------------
\* Specification of a screening run: start_screening has reset the state,
\* run_screening walks the stock list; the stop button may be pressed at
\* any moment of the run
\* ------------------------------------------------------------------------

InitScreening ==
  /\ params \in ScreeningConfigs
  /\ min_conditions \in 0 .. MaxMinConditions
  /\ stock_data = NotADict
  /\ NoCheckResult
  /\ ScoringIdle
  /\ ResolverIdle
  /\ FetchIdle
  /\ SeriesIdle
  /\ IntegratorIdle
  /\ run_list \in ScreenedLists
  /\ idx = 0
  /\ stop_screening = FALSE
  /\ qualified_stocks = << >>
  /\ stats = NewStats
  /\ outcomes = << >>
  /\ stop_at = None
  /\ screening_pc = "setup"
  /\ ProvidersIdle

\* Lines 857-901: without a stock list the run returns; else the total is
\* recorded and the engine and the scoring system are built.
RunScreeningSetup ==
  /\ screening_pc = "setup"
  /\ IF run_list = << >>
     THEN /\ screening_pc' = "returned"
          /\ UNCHANGED stats
     ELSE /\ screening_pc' = "loop"
          /\ stats' = [ stats EXCEPT !.total_stocks = Len(run_list) ]
  /\ UNCHANGED << run_list, stop_at, idx, stop_screening, qualified_stocks, outcomes,
                  engine_vars, scoring_vars, resolver_vars, fetch_vars,
       series_vars, integrator_vars,
                  provider_vars >>

\* stop_screening_process, on the thread of the window while run_screening
\* is anywhere on its own thread
StopScreeningProcess ==
  /\ screening_pc \in { "setup", "loop", "instrument" }
  /\ ~stop_screening
  /\ stop_screening' = TRUE
  /\ stop_at' = Some([ idx |-> idx, in_flight |-> screening_pc = "instrument" ])
  /\ UNCHANGED << run_list, idx, qualified_stocks, stats, outcomes,
                  screening_pc, engine_vars, scoring_vars, resolver_vars,
                  fetch_vars,
       series_vars, integrator_vars,
                  provider_vars >>

\* A loop that never looks at the flag.
StopRequested_Ignored(flag) == FALSE

\* Line 904: if self.stop_screening
StopRequested(flag) == flag

\* Lines 903-914: the head of the loop finds the flag clear, takes the next
\* instrument and counts it as processed.
BeginInstrument ==
  /\ screening_pc = "loop"
  /\ ~StopRequested(stop_screening)
  /\ idx < Len(run_list)
  /\ stats' = [ stats EXCEPT !.processed = idx + 1 ]
  /\ screening_pc' = "instrument"
  /\ UNCHANGED << run_list, stop_at, idx, stop_screening, qualified_stocks,
                  outcomes, engine_vars, scoring_vars, resolver_vars,
                  fetch_vars, series_vars, integrator_vars,
                  provider_vars >>

\* The body of the loop is at an instrument.
AtInstrument ==
  /\ screening_pc = "instrument"
  /\ idx < Len(run_list)

\* Lines 903-940: get_all_data returns a result that carries an error; the
\* instrument is skipped.
ProcessDataError ==
  /\ AtInstrument
  /\ idx' = idx + 1
  /\ stats' = [ stats EXCEPT !.processed = idx + 1 ]
  /\ outcomes' = Append(outcomes, Outcome(run_list[idx + 1], "data_error", None))
  /\ screening_pc' = "loop"
  /\ UNCHANGED << run_list, stop_at, stop_screening, qualified_stocks,
                  engine_vars, scoring_vars, resolver_vars, fetch_vars,
       series_vars, integrator_vars,
                  provider_vars >>

\* Lines 903-963 and 1028-1030: an exception is raised while the data are
\* resolved or while the conditions are evaluated; the handler of the loop
\* logs it.
ProcessRaises ==
  /\ AtInstrument
  /\ \E where \in { "raised_get_all_data", "raised_check_all_conditions" } :
       outcomes' = Append(outcomes, Outcome(run_list[idx + 1], where, None))
  /\ idx' = idx + 1
  /\ stats' = [ stats EXCEPT !.processed = idx + 1 ]
  /\ screening_pc' = InnerExcept
  /\ UNCHANGED << run_list, stop_at, stop_screening, qualified_stocks,
                  engine_vars, scoring_vars, resolver_vars, fetch_vars,
       series_vars, integrator_vars,
                  provider_vars >>

\* Lines 903-1026: the data are resolved, the conditions evaluated; an
\* instrument that passed is scored, appended and shown, and counted unless
\* showing it raised; one that did not pass is counted as failed.
ProcessEvaluated ==
  /\ AtInstrument
  /\ \E sd \in ScreeningSnapshots(run_list[idx + 1], params),
        shown \in BOOLEAN :
       LET cr == CheckAllConditions(params, min_conditions, sd)
           sc == CalculateScore(ScoreInput(cr.verdicts))
       IN  /\ stock_data' = sd
           /\ check_result' = cr
           /\ outcomes' =
                Append(outcomes,
                       Outcome(run_list[idx + 1],
                               IF cr.passed /\ ~shown
                               THEN "raised_add_result_to_table"
                               ELSE "evaluated",
                               Some(cr.passed)))
           /\ IF cr.passed
              THEN /\ score_input' = ScoreInput(cr.verdicts)
                   /\ score' = sc
                   /\ scoring_pc' = "scored"
                   /\ engine_pc' = "scored"
                   /\ qualified_stocks' =
                        Append(qualified_stocks,
                               [ stock_id |-> run_list[idx + 1],
                                 score |-> sc.total_score ])
                   /\ stats' = [ stats EXCEPT
                                   !.processed = idx + 1,
                                   !.passed = IF shown THEN @ + 1 ELSE @ ]
                   /\ screening_pc' = IF shown THEN "loop" ELSE InnerExcept
              ELSE /\ shown
                   /\ engine_pc' = "checked"
                   /\ stats' = [ stats EXCEPT !.processed = idx + 1,
                                              !.failed = @ + 1 ]
                   /\ screening_pc' = "loop"
                   /\ UNCHANGED << scoring_vars, qualified_stocks >>
  /\ idx' = idx + 1
  /\ UNCHANGED << params, min_conditions, run_list, stop_at,
                  stop_screening,
                  resolver_vars, fetch_vars,
       series_vars, integrator_vars, provider_vars >>

\* Lines 904-905 and 1036: the loop ends, at the end of the list or at the
\* stop flag, and the list is sorted by score, highest first.
FinishRun ==
  /\ screening_pc = "loop"
  /\ StopRequested(stop_screening) \/ idx = Len(run_list)
  /\ qualified_stocks' = SortByScore(qualified_stocks)
  /\ screening_pc' = "finished"
  /\ UNCHANGED << run_list, stop_at, idx, stop_screening, stats, outcomes,
                  engine_vars, scoring_vars, resolver_vars, fetch_vars,
       series_vars, integrator_vars,
                  provider_vars >>

NextScreening ==
  \/ RunScreeningSetup
  \/ StopScreeningProcess
  \/ BeginInstrument
  \/ ProcessDataError
  \/ ProcessRaises
  \/ ProcessEvaluated
  \/ FinishRun

SpecScreening == InitScreening /\ [][NextScreening]_vars

\* ------------------------------------------------------------------------
\* Claims about check_all_conditions and calculate_score
\* ------------------------------------------------------------------------

\* C1: in every result of check_all_conditions, matched_count is the number
\* of recorded verdicts whose value is true.
C1_MatchedCountIsTrueVerdicts ==
  engine_pc # "idle" =>
    check_result.matched_count =
      Cardinality({ k \in DOMAIN check_result.verdicts :
                      check_result.verdicts[k] })

\* C1 witness: a result with one verdict true and another false.
C1_Witness ==
  /\ engine_pc = "checked"
  /\ check_result.matched_count = 1
  /\ \E k \in DOMAIN check_result.verdicts : ~check_result.verdicts[k]

\* C2 as claimed: in every result of check_all_conditions, the one returned
\* for a non-dict argument included, passed is true exactly when
\* matched_count >= min_conditions_to_pass.
C2_PassedIffThresholdMet ==
  engine_pc # "idle" =>
    (check_result.passed <=> check_result.matched_count >= min_conditions)

\* C3: a condition whose parameter is off or absent has neither a verdict
\* nor a display value in the result.
C3_DisabledNeverRecorded ==
  engine_pc # "idle" =>
    \A k \in ResultKeys :
      params[ParamKey(k)] # "on" =>
        /\ k \notin DOMAIN check_result.verdicts
        /\ k \notin DOMAIN check_result.values

\* C3 witness: a full configuration with ROE switched off and EPS switched
\* on, evaluated: EPS is recorded.
C3_Witness ==
  /\ engine_pc = "checked"
  /\ stock_data.is_dict
  /\ params["roe"] = "off"
  /\ params["eps"] = "on"
  /\ "eps" \in DOMAIN check_result.verdicts

\* C9: total_score = min(100, base_score + combo_score), and it lies in
\* 0..100.
C9_TotalScoreCapped ==
  scoring_pc = "scored" =>
    /\ score.total_score =
         (IF score.base_score + score.combo_score > 100 THEN 100
          ELSE score.base_score + score.combo_score)
    /\ score.total_score >= 0
    /\ score.total_score <= 100

\* C9 witness: base and bonus add up to more than 100 and the total is 100.
C9_Witness ==
  /\ scoring_pc = "scored"
  /\ score.base_score + score.combo_score > 100
  /\ score.total_score = 100

\* The weight-table entry C10 names for a result key of the engine; 0 for a
\* key that has none.
C10_TableEntry(k) ==
  CASE k = "volume_surge_20d_3x" -> Weights("volume_surge_3x")
    [] k = "volume_surge_60d_5x" -> Weights("volume_surge_5x")
    [] k = "eps"                 -> Weights("eps_positive")
    [] k = "roe"                 -> Weights("roe_above")
    [] k = "yield"               -> Weights("yield_above")
    [] k = "daily_change"        -> Weights("daily_change_moderate")
    [] k = "change_5d"           -> Weights("change_5d_moderate")
    [] k \in WeightKeys          -> Weights(k)
    [] OTHER                     -> 0

RECURSIVE C10_SumEntries(_, _)
C10_SumEntries(keys, verdicts) ==
  IF keys = << >> THEN 0
  ELSE (IF Get(verdicts, Head(keys)) THEN C10_TableEntry(Head(keys)) ELSE 0)
       + C10_SumEntries(Tail(keys), verdicts)

\* C10 as claimed: scoring a result of check_all_conditions, every matched
\* condition adds the weight of its table entry to base_score (a matched
\* 20-bar surge that of volume_surge_3x, a matched EPS that of eps_positive,
\* and so on).
C10_MatchedAddsTableWeight ==
  engine_pc = "scored" =>
    score.base_score = C10_SumEntries(ResultKeySeq, check_result.verdicts)

\* ------------------------------------------------------------------------
\* Claims about the resolvers and get_all_data
\* ------------------------------------------------------------------------

\* The order in which a resolver may invoke its sources: the providers, then
\* the default.
C4_Order == ProviderChain(resolver) \o << DefaultProvider(resolver) >>

\* C4: get_eps_guaranteed, get_roe_guaranteed and
\* get_trust_holding_percentage try their providers in one fixed order; the
\* value returned is the result of the first provider whose result is > 0,
\* nothing after that provider is invoked (no later provider, no default
\* table), and a provider result <= 0 or a provider exception advances to
\* the next in the order.
C4_FirstPositiveProviderWins ==
  resolver \in { "get_eps_guaranteed", "get_roe_guaranteed",
                 "get_trust_holding_percentage" } =>
    /\ Len(calls) <= Len(C4_Order)
    /\ \A i \in DOMAIN calls : calls[i].provider = C4_Order[i]
    /\ \A i \in DOMAIN calls :
         i <= Len(ProviderChain(resolver)) /\ calls[i].result > 0 =>
           /\ i = Len(calls)
           /\ resolver_pc = "returned"
           /\ resolved = Some(calls[i].result)
    /\ \A i \in DOMAIN calls :
         calls[i].response \in { "timeout", "malformed" } =>
           calls[i].result <= 0
    /\ \A i \in DOMAIN calls :
         calls[i].result <= 0 =>
           /\ i <= Len(ProviderChain(resolver))
           /\ resolver_pc = "returned" => i < Len(calls)
    /\ resolver_pc = "running" => resolved = None

\* C4 witness: the first provider of get_eps_guaranteed raised, the second
\* answered with a positive EPS, which is returned; the default table was
\* not consulted.
C4_Witness ==
  /\ resolver = "get_eps_guaranteed"
  /\ resolver_pc = "returned"
  /\ Len(calls) = 2
  /\ calls[1].response = "timeout"
  /\ calls[2].provider = "get_eps_from_finmind"
  /\ resolved = Some(calls[2].result)

\* Every provider of the chain was invoked and failed.
C5_AllProvidersFailed ==
  /\ resolver_pc = "returned"
  /\ \A i \in DOMAIN ProviderChain(resolver) :
       i \in DOMAIN calls /\ ~(calls[i].result > 0)

\* C5: when every provider for ROE fails (timeout, malformed payload, a
\* non-positive value), the ROE resolver returns the static-table default
\* of the instrument when the table lists it, the generic default
\* otherwise.
C5_RoeFallsBackToTable ==
  /\ resolver = "get_roe_guaranteed" /\ C5_AllProvidersFailed =>
       resolved = Some(IF resolver_id \in DOMAIN RoeTable
                       THEN RoeTable[resolver_id] ELSE RoeGeneric)
  /\ resolver = "get_real_roe" /\ C5_AllProvidersFailed =>
       resolved = Some(IF resolver_id \in DOMAIN RealRoeTable
                       THEN RealRoeTable[resolver_id] ELSE RealRoeGeneric)

\* C5 witness: get_roe_guaranteed for an instrument of the table, its
\* provider timed out, the table value 12.8 is returned.
C5_Witness ==
  /\ resolver = "get_roe_guaranteed"
  /\ resolver_id = "2317"
  /\ C5_AllProvidersFailed
  /\ calls[1].response = "timeout"
  /\ resolved = Some(128)

C7_Raised ==
  { "raised_get_all_data", "raised_check_all_conditions",
    "raised_add_result_to_table" }

\* C7: an exception raised while one instrument is processed is caught
\* inside the loop; the run goes on with the instruments that remain, all
\* of them unless the stop flag is set, and is never aborted.
C7_FailureNeverAborts ==
  (\E i \in DOMAIN outcomes : outcomes[i].outcome \in C7_Raised) =>
    /\ screening_pc \in { "loop", "instrument", "finished" }
    /\ idx = Len(outcomes)
    /\ \A i \in DOMAIN outcomes : outcomes[i].stock_id = run_list[i]
    /\ screening_pc = "finished" /\ ~stop_screening =>
         /\ Len(outcomes) = Len(run_list)
         /\ stats.processed = Len(run_list)

\* C7 witness: the first of three instruments raised, the run finished and
\* the third was evaluated and passed.
C7_Witness ==
  /\ screening_pc = "finished"
  /\ Len(outcomes) = 3
  /\ outcomes[1].outcome = "raised_get_all_data"
  /\ outcomes[3].passed = Some(TRUE)
  /\ Len(qualified_stocks) >= 1

MaxGroups == 2

\* The parameters of the volume-surge tiers, of the technical, the
\* fundamental and the institutional conditions.
EngineGroups ==
  { { "volume_surge1", "volume_surge2", "volume_surge3" },
    { "daily_kd_golden", "above_ma20", "break_60d_high" },
    { "eps", "roe", "yield" },
    { "trust_buy", "trust_5d", "inst_5d" } }

GroupConfigs ==
  { ParamsOf(UNION gs, FALSE) : gs \in SubsetsUpTo(EngineGroups, MaxGroups) }

InitEngineGroups ==
  /\ params \in GroupConfigs
  /\ min_conditions \in 0 .. MaxMinConditions
  /\ stock_data \in SnapshotsFor(params)
  /\ NoCheckResult
  /\ ScoringIdle
  /\ ResolverIdle
  /\ FetchIdle
  /\ ScreeningIdle
  /\ SeriesIdle
  /\ IntegratorIdle
  /\ ProvidersIdle

SpecEngineGroups == InitEngineGroups /\ [][NextEngine]_vars

\* ------------------------------------------------------------------------
\* Claims about the combination bonus and the signal
\* ------------------------------------------------------------------------

\* The number of the result keys in conds whose verdict is true.
C11_Matched(conds) == CountOf(check_result.verdicts, conds)

\* C11 as claimed: for a result of check_all_conditions, combo_score is 10
\* when the 5-, 20- and 60-bar volume-surge verdicts are all true, plus 15
\* when at least two of {daily KD golden cross, above MA20, break 60-day
\* high} and at least two of {EPS, ROE, yield} are true, plus 10 when at
\* least two of {trust_buy, trust_5d, inst_5d} are true, and nothing else.
C11_ComboOfEngineResult ==
  engine_pc = "scored" =>
    score.combo_score =
        (IF C11_Matched({ "volume_surge_1_5x", "volume_surge_20d_3x",
                          "volume_surge_60d_5x" }) = 3
         THEN 10 ELSE 0)
      + (IF /\ C11_Matched({ "daily_kd_golden", "above_ma20",
                             "break_60d_high" }) >= 2
            /\ C11_Matched({ "eps", "roe", "yield" }) >= 2
         THEN 15 ELSE 0)
      + (IF C11_Matched({ "trust_buy", "trust_5d", "inst_5d" }) >= 2
         THEN 10 ELSE 0)

\* The labels in the order of their priority, each with the test that makes
\* it apply to the scored dict: one volume label, for the highest tier
\* matched, then the others.
C12_Priority ==
  LET on(k) == Get(score_input.verdicts, k)
  IN  << [ label |-> "extreme volume surge", applies |-> on("volume_surge_5x") ],
         [ label |-> "medium volume surge",
           applies |-> ~on("volume_surge_5x") /\ on("volume_surge_3x") ],
         [ label |-> "volume surge",
           applies |-> /\ ~on("volume_surge_5x") /\ ~on("volume_surge_3x")
                       /\ on("volume_surge_1_5x") ],
         [ label |-> "KD golden cross", applies |-> on("daily_kd_golden") ],
         [ label |-> "new high", applies |-> on("break_60d_high") ],
         [ label |-> "trust buy", applies |-> on("trust_buy") ],
         [ label |-> "trust buying streak", applies |-> on("trust_5d") ],
         [ label |-> "sound fundamentals",
           applies |-> on("eps_positive") /\ on("roe_above") ] >>

C12_Applying == SelectSeq(C12_Priority, LAMBDA e : e.applies)

\* C12: the signal calculate_score returns for a dict is the first three,
\* at most, of the labels that apply, joined in the order of their
\* priority (a single volume label first, then KD golden cross, breakout,
\* trust buy, trust 5-day buy, fundamentals); it is the observing label
\* when no condition is matched.
C12_SignalIsTopThreeLabels ==
  scoring_pc = "scored" /\ score_input.is_dict =>
    /\ score.key_signal =
         (IF C12_Applying = << >> THEN "observing"
          ELSE JoinPlus([ i \in 1 .. Min(3, Len(C12_Applying)) |->
                            C12_Applying[i].label ]))
    /\ (\A k \in WeightKeys : ~Get(score_input.verdicts, k)) =>
         score.key_signal = "observing"

\* C12 witness: five labels apply and the signal is made of the first
\* three.
C12_Witness ==
  /\ scoring_pc = "scored"
  /\ score_input.is_dict
  /\ Len(C12_Applying) = 5
  /\ score.key_signal = "extreme volume surge + KD golden cross + new high"

\* ------------------------------------------------------------------------
\* Specification of the engine over the scalar conditions: any of EPS, ROE
\* and trust holding are switched on, all three at once included
\* ------------------------------------------------------------------------

ScalarConditions == { "eps", "roe", "trust_holding" }

ScalarConfigs ==
  { ParamsOf(e, s) : e \in SUBSET ScalarConditions, s \in BOOLEAN }

InitEngineScalars ==
  /\ params \in ScalarConfigs
  /\ min_conditions \in 0 .. MaxMinConditions
  /\ stock_data \in SnapshotsFor(params)
  /\ NoCheckResult
  /\ ScoringIdle
  /\ ResolverIdle
  /\ FetchIdle
  /\ ScreeningIdle
  /\ SeriesIdle
  /\ IntegratorIdle
  /\ ProvidersIdle

SpecEngineScalars == InitEngineScalars /\ [][NextEngine]_vars

\* C13 as claimed: with trust_holding switched on, its verdict is true
\* exactly when the snapshot's trust-holding percentage is strictly below
\* the threshold; so the snapshot EPS 39.2, ROE 28.5, trust holding 0.8,
\* with EPS, ROE and trust holding (threshold 15) switched on and
\* min_conditions_to_pass = 3, has matched_count = 3 and passed = true.
C13_TrustHoldingBelowThreshold ==
  engine_pc # "idle" /\ stock_data.is_dict /\ params["trust_holding"] = "on" =>
    /\ stock_data.trust_holding # None =>
         (check_result.verdicts["trust_holding"] <=>
            stock_data.trust_holding[1] < TrustHoldingThreshold)
    /\ ( /\ stock_data.eps = Some(392)
         /\ stock_data.roe = Some(285)
         /\ stock_data.trust_holding = Some(8)
         /\ params["eps"] = "on"
         /\ params["roe"] = "on"
         /\ min_conditions = 3 ) =>
         /\ check_result.matched_count = 3
         /\ check_result.passed

\* ------------------------------------------------------------------------
\* Specification of the series checks: check_all_conditions reaches the
\* block of one series condition with a price frame, or
\* TechnicalCalculator.check_golden_cross is applied to K / D series
\* ------------------------------------------------------------------------

SeriesCalled(fn, df, args) ==
  /\ series_fn = fn
  /\ price_df = df
  /\ series_args = args
  /\ series_result = NoSeriesResult
  /\ series_pc = "called"

InitSeries ==
  /\ \/ \E df \in KdFrames(DailyKdWindow) :
          SeriesCalled("check_kd_golden_with_value", df,
                       [ NoSeriesArgs EXCEPT !.key = "daily_kd_golden" ])
     \/ \E df \in KdFrames(MonthlyKdWindow) :
          SeriesCalled("check_monthly_kd_golden_with_value", df,
                       [ NoSeriesArgs EXCEPT !.key = "monthly_kd_golden" ])
     \/ \E tier \in VolumeTiers : \E df \in VolumeFrames(tier.days) :
          SeriesCalled("check_volume_surge_with_value", df,
                       [ NoSeriesArgs EXCEPT !.key = tier.key,
                                             !.days = tier.days,
                                             !.threshold = tier.threshold,
                                             !.label = tier.label ])
     \/ \E k \in KdPointSeries : \E d \in KdPointSeries :
          SeriesCalled("check_golden_cross", None,
                       [ NoSeriesArgs EXCEPT !.k = k, !.d = d ])
     \/ \E df \in HighFrames :
          SeriesCalled("check_break_60d_high_with_value", df,
                       [ NoSeriesArgs EXCEPT !.key = "break_60d_high" ])
     \/ \E df \in HighFrames :
          SeriesCalled("check_new_high", df,
                       [ NoSeriesArgs EXCEPT !.days = HighWindow ])
  /\ EngineIdle
  /\ ScoringIdle
  /\ ResolverIdle
  /\ FetchIdle
  /\ ScreeningIdle
  /\ IntegratorIdle
  /\ ProvidersIdle

SeriesRest ==
  UNCHANGED << price_df, series_fn, series_args, engine_vars, scoring_vars,
               resolver_vars, fetch_vars, screening_vars, integrator_vars,
                  provider_vars >>

\* check_all_conditions, the daily_kd_golden block
RecordDailyKd ==
  /\ series_pc = "called"
  /\ series_fn = "check_kd_golden_with_value"
  /\ LET res == check_kd_golden_with_value(price_df)
     IN  series_result' =
           [ passed |-> res.passed, value |-> res.value,
             display |-> DisplayKd(res, "") ]
  /\ series_pc' = "recorded"
  /\ SeriesRest

\* check_all_conditions, the monthly_kd_golden block
RecordMonthlyKd ==
  /\ series_pc = "called"
  /\ series_fn = "check_monthly_kd_golden_with_value"
  /\ LET res == check_monthly_kd_golden_with_value(price_df)
     IN  series_result' =
           [ passed |-> res.passed, value |-> res.value,
             display |-> DisplayKd(res, "monthly ") ]
  /\ series_pc' = "recorded"
  /\ SeriesRest

\* check_all_conditions, one of the three volume-surge blocks
RecordVolumeSurge ==
  /\ series_pc = "called"
  /\ series_fn = "check_volume_surge_with_value"
  /\ LET res == check_volume_surge_with_value(price_df, series_args.threshold,
                                              series_args.days)
     IN  series_result' =
           [ passed |-> res.passed, value |-> res.value,
             display |-> DisplayVolumeSurge(res, series_args.threshold,
                                            series_args.label) ]
  /\ series_pc' = "recorded"
  /\ SeriesRest

\* TechnicalCalculator.check_golden_cross(k, d)
GoldenCrossCall ==
  /\ series_pc = "called"
  /\ series_fn = "check_golden_cross"
  /\ series_result' =
       [ passed |-> check_golden_cross(series_args.k, series_args.d),
         value |-> << >>, display |-> "" ]
  /\ series_pc' = "recorded"
  /\ SeriesRest

\* check_all_conditions, the break_60d_high block
RecordBreakHigh ==
  /\ series_pc = "called"
  /\ series_fn = "check_break_60d_high_with_value"
  /\ LET res == check_break_60d_high_with_value(price_df)
     IN  series_result' =
           [ passed |-> res.passed, value |-> res.value,
             display |-> DisplayBreakHigh(res) ]
  /\ series_pc' = "recorded"
  /\ SeriesRest

\* TechnicalCalculator.check_new_high(df, days)
NewHighCall ==
  /\ series_pc = "called"
  /\ series_fn = "check_new_high"
  /\ series_result' =
       [ passed |-> check_new_high(price_df, series_args.days),
         value |-> << >>, display |-> "" ]
  /\ series_pc' = "recorded"
  /\ SeriesRest

NextSeries ==
  \/ RecordDailyKd
  \/ RecordMonthlyKd
  \/ RecordVolumeSurge
  \/ GoldenCrossCall
  \/ RecordBreakHigh
  \/ NewHighCall

SpecSeries == InitSeries /\ [][NextSeries]_vars

\* ------------------------------------------------------------------------
\* C14: the daily and the monthly KD golden-cross verdicts are passed only
\* when previous K <= previous D, current K > current D and current K < 80;
\* a cross with current K >= 80 is not reported as a golden cross.
\* ------------------------------------------------------------------------
C14_GoldenCrossBelowOverbought ==
  \A w \in { DailyKdWindow, MonthlyKdWindow } :
    ( /\ series_pc = "recorded"
      /\ series_fn = ( IF w = DailyKdWindow
                       THEN "check_kd_golden_with_value"
                       ELSE "check_monthly_kd_golden_with_value" )
      /\ series_result.passed )
    => LET st == KdLast(Bars(price_df), w)
       IN  /\ st.prev_k <= st.prev_d
           /\ st.k > st.d
           /\ st.k < Overbought * KdScale

\* ------------------------------------------------------------------------
\* C15: with a price series shorter than the 9-bar KD window (or none) the
\* enabled daily_kd_golden condition is recorded with passed = false and
\* the display value "K=N/A, D=N/A"; and check_golden_cross is false
\* whenever fewer than 2 K or D points exist.
\* ------------------------------------------------------------------------
C15_NoCrossWithoutHistory ==
  series_pc = "recorded" =>
    /\ ( /\ series_fn = "check_kd_golden_with_value"
         /\ Len(Bars(price_df)) < DailyKdWindow )
       => ( /\ series_result.passed = FALSE
            /\ series_result.display = "K=N/A, D=N/A" )
    /\ ( /\ series_fn = "check_golden_cross"
         /\ (Len(series_args.k) < 2 \/ Len(series_args.d) < 2) )
       => series_result.passed = FALSE

\* C15: a frame of 5 rows has been through the daily_kd_golden block.
C15_Witness ==
  /\ series_pc = "recorded"
  /\ series_fn = "check_kd_golden_with_value"
  /\ Len(Bars(price_df)) = 5
  /\ series_result.passed = FALSE
  /\ series_result.display = "K=N/A, D=N/A"

\* ------------------------------------------------------------------------
\* C16: for each volume-surge tier the ratio is the latest volume divided
\* by the mean volume of the N bars before the latest bar; when that mean
\* is 0 the verdict is passed = false and the display value is "N/A"
\* (alone, or in the place of the ratio in the tier's display string).
\* ------------------------------------------------------------------------
C16_RatioOverTrailingMean ==
  ( /\ series_pc = "recorded"
    /\ series_fn = "check_volume_surge_with_value"
    /\ Len(Bars(price_df)) >= series_args.days + 1 )
  => LET bars == Bars(price_df)
         n == Len(bars)
         days == series_args.days
         total == SumVolume(bars, n - days, n - 1)
         latest == bars[n].Trading_Volume
         ratio == series_result.value
         tail == " (threshold: " \o FmtFloat(series_args.threshold) \o "x)"
     IN  IF total > 0
         THEN ratio[1] * total = latest * days * ratio[2]
         ELSE /\ series_result.passed = FALSE
              /\ series_result.display \in
                   { "N/A",
                     series_args.label \o ": N/A" \o tail,
                     series_args.label \o ": N/Ax" \o tail }

\* ------------------------------------------------------------------------
\* Specification of the limit-up exclusion: check_all_conditions reaches
\* the exclude_limit_up block with a price frame, while the integrator
\* holds its lists of some age
\* ------------------------------------------------------------------------

IntegratorIn(st) ==
  /\ exchange = st.ex
  /\ warning_stocks = st.lists.warning_stocks
  /\ disposition_stocks = st.lists.disposition_stocks
  /\ last_special_update = st.lists.last_special_update
  /\ network_calls = << >>
  /\ first_result = None

InitLimitUp ==
  /\ \E df \in LimitFrames, days \in 1 .. MaxLimitDays :
       \/ /\ SeriesCalled("check_not_limit_up_with_value", df,
                          [ NoSeriesArgs EXCEPT !.key = "not_limit_up",
                                                !.days = days,
                                                !.stock_id = Some("2330") ])
          /\ \E st \in IntegratorStates : IntegratorIn(st)
       \/ /\ SeriesCalled("check_not_limit_up_with_value", df,
                          [ NoSeriesArgs EXCEPT !.key = "not_limit_up",
                                                !.days = days ])
          /\ IntegratorIdle
  /\ EngineIdle
  /\ ScoringIdle
  /\ ResolverIdle
  /\ FetchIdle
  /\ ScreeningIdle
  /\ ProvidersIdle

\* check_all_conditions, the exclude_limit_up block
RecordNotLimitUp ==
  /\ series_pc = "called"
  /\ series_fn = "check_not_limit_up_with_value"
  /\ LET id == series_args.stock_id
         days == series_args.days
         before == SpecialLists(warning_stocks, disposition_stocks,
                                last_special_update)
         asked == AsksPriceLimit(price_df, days, id)
         after == IF asked THEN RefreshLists(exchange, before)
                  ELSE [ lists |-> before, requests |-> << >> ]
         flagged == asked /\ is_disposition(after.lists, id[1])
         res == check_not_limit_up_with_value(price_df, days, id, flagged)
     IN  /\ series_result' =
               [ passed |-> res.passed, value |-> res.value,
                 display |-> DisplayLimitUp(res, days) ]
         /\ warning_stocks' = after.lists.warning_stocks
         /\ disposition_stocks' = after.lists.disposition_stocks
         /\ last_special_update' = after.lists.last_special_update
         /\ network_calls' = network_calls \o after.requests
  /\ series_pc' = "recorded"
  /\ UNCHANGED << price_df, series_fn, series_args, exchange, first_result,
                  engine_vars, scoring_vars, resolver_vars, fetch_vars,
                  screening_vars,
                  provider_vars >>

NextLimitUp == RecordNotLimitUp

SpecLimitUp == InitLimitUp /\ [][NextLimitUp]_vars

\* ------------------------------------------------------------------------
\* C17: for an instrument flagged as disposition (price limit 5%, a limit
\* hit being a daily change >= 4.9% with the close within 0.1% of the bar's
\* high), if each of the last N bars is a limit hit then the not_limit_up
\* verdict with exclusion threshold N is passed = false.
\* ------------------------------------------------------------------------

\* The not_limit_up block has run for instrument 2330, which the integrator
\* holds as a disposition stock, on a frame in which each of the last
\* series_args.days bars satisfies Hit(previous bar, bar).
C17_FlaggedRun(Hit(_, _)) ==
  /\ series_pc = "recorded"
  /\ series_fn = "check_not_limit_up_with_value"
  /\ series_args.stock_id = Some("2330")
  /\ "2330" \in disposition_stocks
  /\ Len(Bars(price_df)) >= series_args.days + 1
  /\ \A i \in 0 .. (series_args.days - 1) :
       LET n == Len(Bars(price_df))
       IN  Hit(Bars(price_df)[n - i - 1], Bars(price_df)[n - i])

\* Change >= 4.9% and close within 0.1% of the bar's high.
C17_HitByHigh(prev, curr) ==
  /\ (curr.close - prev.close) * 1000 >= 49 * prev.close
  /\ (curr.max - curr.close) * 1000 <= curr.max

\* Change >= 4.9% and close less than 0.1% of the previous close away from
\* the bar's high.
C17_HitByPrevClose(prev, curr) ==
  /\ (curr.close - prev.close) * 1000 >= 49 * prev.close
  /\ (curr.max - curr.close) * 1000 < prev.close

InitEngineFeeds ==
  /\ params \in FeedConfigs
  /\ min_conditions \in 0 .. MaxMinConditions
  /\ stock_data \in FeedSnapshots
  /\ NoCheckResult
  /\ exchange \in Exchanges
  /\ \E lists \in FeedLists :
       /\ warning_stocks = lists.warning_stocks
       /\ disposition_stocks = lists.disposition_stocks
       /\ last_special_update = lists.last_special_update
  /\ network_calls = << >>
  /\ first_result = None
  /\ ScoringIdle
  /\ ResolverIdle
  /\ FetchIdle
  /\ ScreeningIdle
  /\ SeriesIdle
  /\ ProvidersIdle

\* What one call of check_all_conditions does to the engine and to its
\* integrator.
CheckThroughFeeds ==
  LET lists == SpecialLists(warning_stocks, disposition_stocks,
                            last_special_update)
      after == IF stock_data.is_dict
               THEN ListsAfterCheck(params, stock_data, exchange, lists)
               ELSE lists
  IN  /\ check_result' =
           CheckAllConditions(params, min_conditions,
                              WithFeeds(params, stock_data, exchange, lists))
      /\ warning_stocks' = after.warning_stocks
      /\ disposition_stocks' = after.disposition_stocks
      /\ last_special_update' = after.last_special_update
      /\ network_calls' =
           network_calls \o RequestsOfCheck(params, stock_data, exchange, lists)

\* screening_engine.check_all_conditions(stock_data), the first call
CheckFirst ==
  /\ engine_pc = "idle"
  /\ CheckThroughFeeds
  /\ first_result' = Some(check_result')
  /\ engine_pc' = "checked"
  /\ UNCHANGED << params, min_conditions, stock_data, exchange, scoring_vars,
                  resolver_vars, fetch_vars, screening_vars, series_vars,
                  provider_vars >>

\* Two hours go by: the lists the integrator holds are due.
HourPasses ==
  /\ engine_pc = "checked"
  /\ last_special_update = "fresh"
  /\ last_special_update' = "stale"
  /\ UNCHANGED << engine_vars, exchange, warning_stocks, disposition_stocks,
                  network_calls, first_result, scoring_vars, resolver_vars,
                  fetch_vars, screening_vars, series_vars,
                  provider_vars >>

\* A day and ten minutes go by.
DayPasses ==
  /\ engine_pc = "checked"
  /\ last_special_update = "fresh"
  /\ last_special_update' = "day_old"
  /\ UNCHANGED << engine_vars, exchange, warning_stocks, disposition_stocks,
                  network_calls, first_result, scoring_vars, resolver_vars,
                  fetch_vars, screening_vars, series_vars,
                  provider_vars >>

\* A provider goes down or comes back, the exchange republishes its lists,
\* the valuation feed moves.
ExchangeChanges ==
  /\ engine_pc = "checked"
  /\ exchange' \in Exchanges \ { exchange }
  /\ UNCHANGED << engine_vars, warning_stocks, disposition_stocks,
                  last_special_update, network_calls, first_result,
                  scoring_vars, resolver_vars, fetch_vars, screening_vars,
                  series_vars,
                  provider_vars >>

\* screening_engine.check_all_conditions(stock_data), the second call
CheckAgain ==
  /\ engine_pc = "checked"
  /\ CheckThroughFeeds
  /\ engine_pc' = "rechecked"
  /\ UNCHANGED << params, min_conditions, stock_data, exchange, first_result,
                  scoring_vars, resolver_vars, fetch_vars, screening_vars,
                  series_vars,
                  provider_vars >>

NextEngineFeeds ==
  \/ CheckFirst
  \/ HourPasses
  \/ DayPasses
  \/ ExchangeChanges
  \/ CheckAgain

SpecEngineFeeds == InitEngineFeeds /\ [][NextEngineFeeds]_vars

\* ------------------------------------------------------------------------
\* C18: calling check_all_conditions twice with the same snapshot and the
\* same configuration returns identical results (verdicts, display values,
\* matched_count and passed), whatever happens between the two calls.
\* ------------------------------------------------------------------------
C18_SecondCallSameResult ==
  engine_pc = "rechecked" => check_result = first_result[1]

\* ------------------------------------------------------------------------
\* C19: check_all_conditions evaluates every enabled condition from the
\* values carried in the snapshot only: during evaluation no data provider
\* is invoked and no network request is issued.
\* ------------------------------------------------------------------------
C19_NoRequestDuringEvaluation ==
  network_calls = << >>

\* ------------------------------------------------------------------------
\* Specification of a run that may be stopped: run_screening on its thread,
\* which keeps running until it returns, and stop_screening_process on the
\* thread of the window at any moment
\* ------------------------------------------------------------------------

\* One configuration (ROE above its threshold, one condition to pass): the
\* instruments of the list still differ in how they come out.
InitScreeningStop ==
  /\ InitScreening
  /\ params = ParamsOf({ "roe" }, FALSE)
  /\ min_conditions = 1
  /\ ProvidersIdle

\* The steps of run_screening.
RunScreeningStep ==
  \/ RunScreeningSetup
  \/ BeginInstrument
  \/ ProcessDataError
  \/ ProcessRaises
  \/ ProcessEvaluated
  \/ FinishRun

SpecScreeningStop ==
  InitScreeningStop /\ [][NextScreening]_vars /\ WF_vars(RunScreeningStep)

\* ------------------------------------------------------------------------
\* C20: the stop flag is examined only between instruments.  Once it is
\* set during a run, the instrument being processed at that moment is
\* carried through to its outcome, no further instrument is begun, and the
\* run then ends.
\* ------------------------------------------------------------------------

\* The number of instruments that may be processed in a run stopped at st.
C20_Allowed(st) == st.idx + (IF st.in_flight THEN 1 ELSE 0)

C20_AfterStop ==
  stop_at # None =>
    LET st == stop_at[1]
    IN  /\ idx <= C20_Allowed(st)
        /\ Len(outcomes) <= C20_Allowed(st)
        /\ screening_pc = "instrument" => (st.in_flight /\ idx = st.idx)
        /\ screening_pc = "finished" =>
             /\ Len(outcomes) = C20_Allowed(st)
             /\ st.in_flight =>
                  outcomes[st.idx + 1].stock_id = run_list[st.idx + 1]

FinMindRest ==
  /\ EngineIdle
  /\ ScoringIdle
  /\ ResolverIdle
  /\ FetchIdle
  /\ ScreeningIdle
  /\ SeriesIdle
  /\ IntegratorIdle
  /\ HoldingIdle
  /\ FetcherIdle

NotFinMind ==
  << engine_vars, scoring_vars, resolver_vars, fetch_vars, screening_vars,
     series_vars, integrator_vars, holding_vars, fetcher_vars >>

\* A FinMindAPI instance some time after its construction (time.time() is
\* far from 0, last_request_time is 0) or just after it served a request.
FinMindInstance(threads, answers) ==
  /\ fm_threads = threads
  /\ fm_answers = answers
  /\ fm_pc = [ t \in Threads |-> "idle" ]
  /\ fm_attempt = [ t \in Threads |-> 0 ]
  /\ fm_last = [ t \in Threads |-> "none" ]
  /\ fm_result = [ t \in Threads |-> None ]
  /\ fm_wake_at = [ t \in Threads |-> 0 ]
  /\ fm_started = [ t \in Threads |-> None ]
  /\ clock = MinRequestInterval
  /\ last_request_time \in { 0, clock }
  /\ FinMindRest

\* One caller, a provider that can answer anything.
InitFinMind == FinMindInstance({ 1 }, GetOutcomes)

\* _make_request is entered and _throttle reads the clock and
\* last_request_time.
ThrottleReads(t) ==
  /\ t \in fm_threads
  /\ fm_pc[t] = "idle"
  /\ LET sleep == ThrottleSleep(clock, last_request_time)
     IN  /\ fm_pc' = [ fm_pc EXCEPT ![t] =
                         IF sleep > 0 THEN "sleeping" ELSE "ready" ]
         /\ fm_wake_at' = [ fm_wake_at EXCEPT ![t] = clock + sleep ]
  /\ UNCHANGED << fm_threads, fm_answers, fm_attempt, fm_last, fm_result,
                  fm_started, last_request_time, clock, NotFinMind >>

\* time.sleep of _throttle is over.
ThrottleWakes(t) ==
  /\ fm_pc[t] = "sleeping"
  /\ clock >= fm_wake_at[t]
  /\ fm_pc' = [ fm_pc EXCEPT ![t] = "ready" ]
  /\ UNCHANGED << fm_threads, fm_answers, fm_attempt, fm_last, fm_result,
                  fm_wake_at, fm_started, last_request_time, clock,
                  NotFinMind >>

\* _throttle writes last_request_time and returns, and the loop issues its
\* first requests.get.
FirstAttempt(t) ==
  /\ fm_pc[t] = "ready"
  /\ last_request_time' = clock
  /\ fm_started' = [ fm_started EXCEPT ![t] = Some(clock) ]
  /\ fm_attempt' = [ fm_attempt EXCEPT ![t] = 0 ]
  /\ fm_pc' = [ fm_pc EXCEPT ![t] = "waiting" ]
  /\ UNCHANGED << fm_threads, fm_answers, fm_last, fm_result, fm_wake_at,
                  clock, NotFinMind >>

\* requests.get comes back and the rest of the loop body runs, up to the
\* return or into the sleep before the next attempt.
GetReturns(t) ==
  /\ fm_pc[t] = "waiting"
  /\ \E r \in fm_answers :
       LET after == AfterResponse(r, fm_attempt[t])
       IN  /\ fm_last' = [ fm_last EXCEPT ![t] = r ]
           /\ fm_pc' = [ fm_pc EXCEPT ![t] = after.pc ]
           /\ fm_result' = [ fm_result EXCEPT ![t] = after.result ]
  /\ UNCHANGED << fm_threads, fm_answers, fm_attempt, fm_wake_at,
                  fm_started, last_request_time, clock, NotFinMind >>

\* The sleep at the end of the loop body is over and the next requests.get
\* is issued.
NextAttempt(t) ==
  /\ fm_pc[t] = "backoff"
  /\ fm_attempt' = [ fm_attempt EXCEPT ![t] = @ + 1 ]
  /\ fm_pc' = [ fm_pc EXCEPT ![t] = "waiting" ]
  /\ UNCHANGED << fm_threads, fm_answers, fm_last, fm_result, fm_wake_at,
                  fm_started, last_request_time, clock, NotFinMind >>

\* A tenth of a second passes.
Tick ==
  /\ \/ clock < MinRequestInterval + MaxClock
     \/ \E t \in Threads : fm_pc[t] = "sleeping" /\ fm_wake_at[t] > clock
  /\ clock' = clock + 1
  /\ UNCHANGED << fm_threads, fm_answers, fm_pc, fm_attempt, fm_last,
                  fm_result, fm_wake_at, fm_started, last_request_time,
                  NotFinMind >>

ThrottleStep == \E t \in Threads : ThrottleReads(t) \/ ThrottleWakes(t)

RequestStep ==
  \E t \in Threads : FirstAttempt(t) \/ GetReturns(t) \/ NextAttempt(t)

NextFinMind == ThrottleStep \/ RequestStep \/ Tick

SpecFinMind == InitFinMind /\ [][NextFinMind]_vars

\* C21: a structural failure (HTTP 4xx, a malformed JSON body, an error
\* status in the body) ends the call: once requests.get came back with one,
\* _make_request has returned None and issues no further request.
C21_StructuralFailureEndsCall ==
  \A t \in fm_threads :
    fm_last[t] \in StructuralFailures =>
      fm_pc[t] = "returned" /\ fm_result[t] = None

\* ------------------------------------------------------------------------
\* Specification of one call of get_trust_holding_percentage: the requests
\* go out one after the other, the peer answers or stays silent, and a
\* request issued with a timeout is given up when the timeout expires
\* ------------------------------------------------------------------------

NotHolding ==
  << engine_vars, scoring_vars, resolver_vars, fetch_vars, screening_vars,
     series_vars, integrator_vars, finmind_vars, fetcher_vars >>

InitHolding ==
  /\ th_id \in HoldingIds
  /\ th_pc = "idle"
  /\ th_month = 0
  /\ th_net = 0
  /\ th_result = None
  /\ EngineIdle
  /\ ScoringIdle
  /\ ResolverIdle
  /\ FetchIdle
  /\ ScreeningIdle
  /\ SeriesIdle
  /\ IntegratorIdle
  /\ FinMindIdle
  /\ FetcherIdle

\* get_trust_holding_percentage(stock_id) is entered and
\* _get_trust_holding_from_twse issues its first request.
HoldingCall ==
  /\ th_pc = "idle"
  /\ th_pc' = "twse_request"
  /\ UNCHANGED << th_id, th_month, th_net, th_result, NotHolding >>

\* The tail of get_trust_holding_percentage once both sources gave 0.0: the
\* default table.
ReturnDefault ==
  /\ th_pc' = "returned"
  /\ th_result' = Some(DefaultHolding(th_id))

\* The table answers the request of _get_trust_holding_from_twse: with a
\* percentage that is returned, with nothing for the month (the next month
\* is asked, the history after the last), or with something that raises
\* (0.0 from the except, the history is next).
TwseAnswered ==
  /\ th_pc = "twse_request"
  /\ \/ \E answer \in TwseAnswers :
          IF TwsePct(answer) > 0
          THEN /\ th_pc' = "returned"
               /\ th_result' = Some(TwsePct(answer))
               /\ UNCHANGED th_month
          ELSE IF th_month < TwseMonths - 1
          THEN /\ th_month' = th_month + 1
               /\ UNCHANGED << th_pc, th_result >>
          ELSE /\ th_pc' = "buysell_request"
               /\ UNCHANGED << th_month, th_result >>
     \/ /\ th_pc' = "buysell_request"
        /\ UNCHANGED << th_month, th_result >>
  /\ UNCHANGED << th_id, th_net, NotHolding >>

\* The buy/sell feed answers the request of
\* _calculate_trust_holding_from_history: with rows of the investment
\* trusts (the instrument feed is asked next), or with nothing usable.
BuySellAnswered ==
  /\ th_pc = "buysell_request"
  /\ \/ \E net \in NetShares :
          /\ th_net' = net
          /\ th_pc' = "info_request"
          /\ UNCHANGED th_result
     \/ /\ ReturnDefault
        /\ UNCHANGED th_net
  /\ UNCHANGED << th_id, th_month, NotHolding >>

\* The instrument feed answers the request of _get_stock_info: with the
\* Capital of the instrument, or with nothing usable ({} is returned).
InfoAnswered ==
  /\ th_pc = "info_request"
  /\ \/ \E capital \in Capitals :
          LET trust_pct == HoldingFromHistory(th_net, capital)
          IN  IF trust_pct > 0
              THEN /\ th_pc' = "returned"
                   /\ th_result' = Some(trust_pct)
              ELSE ReturnDefault
     \/ ReturnDefault
  /\ UNCHANGED << th_id, th_month, th_net, NotHolding >>

\* The timeout of the request in flight expires: requests.get raises, the
\* except of the function that issued it returns 0.0 and the next source
\* follows.
RequestTimesOut ==
  /\ th_pc \in { "twse_request", "buysell_request", "info_request" }
  /\ RequestTimeout(th_pc) # None
  /\ IF th_pc = "twse_request"
     THEN /\ th_pc' = "buysell_request"
          /\ UNCHANGED th_result
     ELSE ReturnDefault
  /\ UNCHANGED << th_id, th_month, th_net, NotHolding >>

NextHolding ==
  \/ HoldingCall
  \/ TwseAnswered
  \/ BuySellAnswered
  \/ InfoAnswered
  \/ RequestTimesOut

\* The call is made and timeouts expire; nothing obliges a peer to answer.
SpecHolding ==
  /\ InitHolding
  /\ [][NextHolding]_vars
  /\ WF_vars(HoldingCall)
  /\ WF_vars(RequestTimesOut)

\* C22: no resolution step blocks indefinitely: a call of
\* get_trust_holding_percentage that was entered eventually returns.
C22_EveryCallReturns == (th_pc # "idle") ~> (th_pc = "returned")

\* ------------------------------------------------------------------------
\* Specification of the throttle under concurrency: every thread calls
\* _make_request once on the shared instance
\* ------------------------------------------------------------------------

InitFinMindThreads == FinMindInstance(Threads, { "ok_v4", "timeout" })

SpecFinMindThreads == InitFinMindThreads /\ [][NextFinMind]_vars

\* C23: the first attempts of any two calls on one instance are started at
\* least min_request_interval apart.
C23_FirstAttemptsSpaced ==
  \A t \in fm_threads : \A u \in fm_threads \ { t } :
    fm_started[t] # None /\ fm_started[u] # None =>
      \/ fm_started[t][1] - fm_started[u][1] >= MinRequestInterval
      \/ fm_started[u][1] - fm_started[t][1] >= MinRequestInterval

\* ------------------------------------------------------------------------
\* The breakout verdict (SpecSeries)
\* ------------------------------------------------------------------------

\* The maximum high of the HighWindow bars that precede the latest bar;
\* None when the frame does not hold that many.
C24_PrecedingHigh(bars) ==
  IF Len(bars) < HighWindow + 1 THEN None
  ELSE Some(MaxOf({ bars[i].max :
                      i \in (Len(bars) - HighWindow) .. (Len(bars) - 1) }))

\* C24: break_60d_high is passed exactly when the latest close is >= the
\* maximum high of the 60 bars before the latest bar, and is not passed
\* when that much history is missing.
C24_BreakAbovePrecedingHigh ==
  ( series_pc = "recorded"
      /\ series_fn = "check_break_60d_high_with_value" ) =>
    LET bars == Bars(price_df)
        high == C24_PrecedingHigh(bars)
    IN  series_result.passed <=>
          ( high # None /\ bars[Len(bars)].close >= high[1] )

\* ------------------------------------------------------------------------
\* The limit-up exclusion and short series (SpecLimitUp)
\* ------------------------------------------------------------------------

\* C25: not_limit_up is passed exactly when the run of limit hits that ends
\* at the latest bar, as counted over the last N bars, is shorter than N,
\* whatever the length of the series.
C25_PassedIffRunShorter ==
  ( series_pc = "recorded"
      /\ series_fn = "check_not_limit_up_with_value" ) =>
    ( series_result.passed <=> series_result.value[1] < series_args.days )

\* ------------------------------------------------------------------------
\* Specification of a TrustHoldingFetcher: lookups follow one another and
\* cache entries age
\* ------------------------------------------------------------------------

NotFetcher ==
  << engine_vars, scoring_vars, resolver_vars, fetch_vars, screening_vars,
     series_vars, integrator_vars, finmind_vars, holding_vars >>

\* TrustHoldingFetcher()
InitFetcher ==
  /\ tf_cache = [ id \in FetcherIds |-> None ]
  /\ tf_last = None
  /\ tf_lookups = 0
  /\ EngineIdle
  /\ ScoringIdle
  /\ ResolverIdle
  /\ FetchIdle
  /\ ScreeningIdle
  /\ SeriesIdle
  /\ IntegratorIdle
  /\ FinMindIdle
  /\ HoldingIdle

\* What a lookup leaves behind: the cache with the entry it wrote, and the
\* record of the lookup.
AfterLookup(fn, id, r) ==
  /\ tf_cache' = IF r.store # None THEN [ tf_cache EXCEPT ![id] = r.store ]
                 ELSE tf_cache
  /\ tf_last' = Some([ fn |-> fn, id |-> id, returned |-> r.returned,
                       asked |-> r.asked ])
  /\ tf_lookups' = tf_lookups + 1
  /\ UNCHANGED NotFetcher

\* fetcher.get_trust_holding_from_twse(stock_id)
LookupTwse ==
  /\ tf_lookups < MaxLookups
  /\ \E id \in FetcherIds, twse \in SourceAnswers, otc \in OtcAnswers :
       AfterLookup("get_trust_holding_from_twse", id,
                   FromTwse(tf_cache[id], twse, otc))

\* fetcher.get_trust_holding_from_otc(stock_id)
LookupOtc ==
  /\ tf_lookups < MaxLookups
  /\ \E id \in FetcherIds, otc \in OtcAnswers :
       AfterLookup("get_trust_holding_from_otc", id, FromOtc(otc))

\* cache_duration seconds have gone by since an entry was written.
CacheAges ==
  /\ \E id \in FetcherIds :
       /\ tf_cache[id] # None
       /\ tf_cache[id][1].fresh
       /\ tf_cache' = [ tf_cache EXCEPT ![id] =
                          Some(CacheEntry(tf_cache[id][1].pct, FALSE)) ]
  /\ UNCHANGED << tf_last, tf_lookups, NotFetcher >>

NextFetcher == LookupTwse \/ LookupOtc \/ CacheAges

SpecFetcher == InitFetcher /\ [][NextFetcher]_vars

\* C27: the cache holds only validated percentages: every entry is above
\* zero, so that no cache hit returns 0.
C27_CacheHoldsValidated ==
  \A id \in FetcherIds : tf_cache[id] # None => tf_cache[id][1].pct > 0

\* ------------------------------------------------------------------------
\* The flag lookups fail open (SpecEngineFeeds)
\* ------------------------------------------------------------------------

\* The verdicts of check_all_conditions that come from the warning and
\* disposition lists.
C26_FlagKeys == { "not_warning", "not_disposition" }

\* C26: when a call of check_all_conditions finds the flag source
\* unavailable (the snapshot has no instrument id, or the lists are fetched
\* during the call and the fetch fails), the not_warning and
\* not_disposition verdicts it records are true.
C26_FailOpen ==
  [][ ( /\ engine_pc' # engine_pc
        /\ engine_pc' \in { "checked", "rechecked" }
        /\ stock_data.is_dict
        /\ \/ ~HasStockId(stock_data)
           \/ /\ ~exchange.up
              /\ \E i \in (Len(network_calls) + 1) .. Len(network_calls') :
                   network_calls'[i] = "get_warning_stocks" )
      => \A k \in C26_FlagKeys \cap DOMAIN check_result'.verdicts :
           check_result'.verdicts[k] ]_vars

\* C26: an instrument with an id has been evaluated with both exclusions
\* on while the exchange did not answer the fetch of the lists, and both
\* verdicts are true.
C26_Witness ==
  /\ engine_pc = "checked"
  /\ first_result = Some(check_result)
  /\ HasStockId(stock_data)
  /\ ~exchange.up
  /\ \E i \in DOMAIN network_calls : network_calls[i] = "get_warning_stocks"
  /\ C26_FlagKeys \subseteq DOMAIN check_result.verdicts
  /\ \A k \in C26_FlagKeys : check_result.verdicts[k]

\* ------------------------------------------------------------------------
\* The age of the warning and disposition lists (SpecEngineFeeds)
\* ------------------------------------------------------------------------

\* C28: is_warning_or_disposition never answers from lists older than an
\* hour: a call of check_all_conditions that asks it more than 3600 seconds
\* after the last refresh fetches both lists again.
C28_StaleListsRefetched ==
  [][ ( /\ engine_pc' # engine_pc
        /\ engine_pc' \in { "checked", "rechecked" }
        /\ stock_data.is_dict
        /\ AsksSpecialLists(params, stock_data)
        /\ last_special_update # "none"
        /\ TotalSeconds(Elapsed(last_special_update)) > SpecialTtl )
      => /\ \E i \in (Len(network_calls) + 1) .. Len(network_calls') :
              network_calls'[i] = "get_warning_stocks"
         /\ \E i \in (Len(network_calls) + 1) .. Len(network_calls') :
              network_calls'[i] = "get_disposition_stocks" ]_vars

\* ------------------------------------------------------------------------
\* The market condition of an admitted instrument (SpecEngine)
\* ------------------------------------------------------------------------

\* C29: an over-the-counter instrument (typed 'otc' or 'tpex') that the
\* market scope admits and that is evaluated with market_otc enabled gets
\* market_otc = true.
C29_OtcCreditedWithItsMarket ==
  ( /\ engine_pc \in { "checked", "scored" }
    /\ stock_data.is_dict
    /\ stock_data.type \in { "otc", "tpex" }
    /\ IsEnabled(params, "market_otc")
    /\ Admitted(params, stock_data.type) )
  => check_result.verdicts["market_otc"]

\* ------------------------------------------------------------------------
\* The counters of a finished run (SpecScreening)
\* ------------------------------------------------------------------------

\* C30: when a run finishes without having been stopped, every instrument
\* of the list has been counted once as passed or failed: passed + failed =
\* processed = total_stocks, and passed is the length of the result list.
C30_EveryInstrumentCounted ==
  ( screening_pc = "finished" /\ stop_at = None /\ ~stop_screening ) =>
    /\ stats.passed + stats.failed = stats.processed
    /\ stats.processed = stats.total_stocks
    /\ stats.passed = Len(qualified_stocks)

====
